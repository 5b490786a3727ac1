----------------------- MODULE StatefulUploadProofs -----------------------
(* Proofs, for every value of the constants, of the safety properties of    *)
(* StatefulUpload.                                                           *)
EXTENDS StatefulUpload, TLAPS

Flashing == pc0 \in FlashPhases
InSketch == pc1 \in {"setup", "sketch", "ret"}

LastType ==
  [id : Nat, capsule : Capsules \cup {None}, state : States, received : Nat,
   touched : BOOLEAN, error : Errors, gen : Nat]

\* The types the argument needs.
Types ==
  /\ last \in LastType /\ ids \in Nat
  /\ stage \in Seq(Capsules) /\ snapshot \in Seq(Capsules) /\ slot \in Contents /\ page \in Nat
  /\ lastGen \in Nat /\ published \in 0..lastGen /\ observed \in 0..lastGen

\* The pause handshake: what requested_, parked_ and the active replacement say
\* of where the two cores are.
Handshake ==
  /\ parked <=> pc1 \in {"spin", "clear"}
  /\ requested => Active
  /\ Active => requested \/ pc0 = "request"
  /\ pc0 \in {"boot", "request"} => ~requested /\ pc1 \notin {"store", "spin", "clear"}
  /\ pc0 = "check" => requested
  /\ Flashing => requested /\ pc1 = "spin"
  /\ pc0 = "publish" => IF Active THEN requested /\ pc1 = "spin"
                                  ELSE pc1 \notin {"store", "spin", "clear"}
  /\ pc1 = "clear" => ~requested

\* The record of the transaction, and the snapshot of an active replacement.
Transaction ==
  /\ pc0 = "boot" => last.id = 0
  /\ pc0 = "publish" /\ ~Active => last.id = 0
  /\ pc0 \notin {"boot", "loop", "publish"} => Active
  /\ Active => /\ last.id # 0 /\ last.state = "committing" /\ ~pending
               /\ Whole(snapshot, last.capsule)
  /\ last.id # 0 => last.capsule \in Capsules
  /\ BlocksConsole => ~last.touched /\ last.error = "none"
  /\ pc0 = "program" => page \in 1..Len(snapshot)

\* Until the old generation is stopped it and the slot are what flash.begin
\* found; from then on no generation is published until the new one is.
Old ==
  /\ BlocksConsole /\ pc0 \notin FlashPhases \cup {"publish"} => published = before.gen
  /\ BlocksConsole /\ pc0 \notin {"program", "readback", "publish"} => slot = before.slot
  /\ pc0 \in FlashPhases \cup {"boot", "publish"} => published = 0
  /\ pc0 = "publish" /\ Active => slot = Written(last.capsule) /\ image = last.capsule
  /\ GiveUpKeepsOld
  /\ InstalledRuns

\* The published generation: its image, its arena, and what core 1 does with it.
Memory ==
  /\ arena \in [image : Capsules \cup {None}, writers : SUBSET Nat]
  /\ published # 0 =>
       /\ Holds(slot, image) /\ arena.image = image
       /\ arena.writers = IF observed = published /\ pc1 # "setup" THEN {published} ELSE {}
  /\ pc0 = "publish" =>
       /\ Holds(slot, image) /\ arena.image = image /\ arena.writers = {}
       /\ observed # lastGen /\ lastGen # 0 /\ returned = 0
  /\ InSketch => /\ published # 0 /\ current = published /\ observed = published
                 /\ code1 = image
  /\ pc1 = "ret" => current \in completed
  /\ returned # 0 => returned \in completed

IndInv == Types /\ Handshake /\ Transaction /\ Old /\ Memory

----------------------------------------------------------------------------
(* What the steps of core 0 do to the record, field by field *)

\* All that the requests and the polls without a replacement leave alone.
Others == <<snapshot, requested, parked, slot, page, image, lastGen, published,
            returned, arena, pc1, current, observed, code1, completed, before>>

\* The record of a transaction that has no replacement yet moves on, or ends.
Kept == /\ last'.id = last.id /\ last'.capsule = last.capsule
        /\ last'.touched = last.touched

Moved == /\ Kept /\ last'.error = last.error
         /\ last'.state \in {"accepted", "verified", "committing"}

Ended == /\ Kept /\ last'.error # "install_failed"
         /\ last'.state \in {"aborted", "failed"}

Staged == /\ pc0 = "loop" /\ BlocksConsole /\ ~Active
          /\ Moved \/ Ended
          /\ UNCHANGED <<Others, ids, pc0>>

\* A replacement gives up.
GivenUp(error, touched) ==
  /\ last'.id = last.id /\ last'.capsule = last.capsule
  /\ last'.state = "failed" /\ last'.error = error /\ last'.touched = touched
  /\ snapshot' = <<>> /\ ~requested' /\ pc0' = "loop"

\* Upload::fail writes these fields of the record.
LEMMA FailedEffect ==
  ASSUME Types, NEW error \in Errors, NEW touched \in BOOLEAN, Failed(error, touched)
  PROVE  /\ last' \in LastType /\ stage' \in Seq(Capsules)
         /\ last'.id = last.id /\ last'.capsule = last.capsule
         /\ last'.state = "failed" /\ last'.error = error /\ last'.touched = touched
<1>1. last' = [last EXCEPT !.state = "failed", !.error = error, !.touched = touched, !.gen = 0]
  BY DEF Failed
<1>2. last' \in LastType
  <2>1. 0 \in Nat /\ "failed" \in States
    BY DEF States
  <2> QED BY <1>1, <2>1, Zenon DEF Types, LastType
<1>3. stage' \in Seq(Capsules)
  BY DEF Failed
<1> QED BY <1>1, <1>2, <1>3 DEF Types, LastType

\* What giving up changes of a transaction.
LEMMA GaveUpEffect ==
  ASSUME Types, NEW error \in Errors, NEW touched \in BOOLEAN, GaveUp(error, touched)
  PROVE  last' \in LastType /\ stage' \in Seq(Capsules) /\ GivenUp(error, touched)
<1>1. Failed(error, touched) /\ Released
  BY DEF GaveUp
<1>2. snapshot' = <<>> /\ ~requested' /\ pc0' = "loop"
  BY <1>1, Zenon DEF Released
<1> QED BY <1>1, <1>2, FailedEffect, Zenon DEF GivenUp

\* Upload::begin starts a record.
LEMMA BeginEffect ==
  ASSUME Types, NEW o, NEW c \in Capsules, Begin(o, c)
  PROVE  /\ last' \in LastType /\ ids' \in Nat /\ ids' = ids + 1 /\ last'.id = ids'
         /\ last'.id # 0 /\ last'.capsule = c /\ last'.state = "accepted"
         /\ ~last'.touched /\ last'.error = "none"
<1>1. NoUpload \in LastType /\ "accepted" \in States
  BY DEF NoUpload, LastType, States, Errors
<1>2. ids + 1 \in Nat /\ ids + 1 # 0
  BY DEF Types
<1>3. last' = [NoUpload EXCEPT !.id = ids + 1, !.capsule = c, !.state = "accepted"]
      /\ ids' = ids + 1
  BY DEF Begin
<1>4. last' \in LastType
  BY <1>1, <1>2, <1>3, Zenon DEF LastType
<1> QED BY <1>1, <1>2, <1>3, <1>4 DEF NoUpload

\* A request on an accepted or verified transaction, and the end of its lease.
LEMMA StagedEffect ==
  ASSUME Types, Transaction,
         \/ \E o \in Owners :
              \/ \E c \in Capsules, n \in 1..MaxChunk : Chunk(o, c, n)
              \/ Finish(o) \/ Commit(o) \/ Abandon(o)
         \/ PollExpired
  PROVE  last' \in LastType /\ stage' \in Seq(Capsules) /\ Staged
<1> DEFINE Goal == last' \in LastType /\ stage' \in Seq(Capsules) /\ Staged
<1>0. last \in LastType /\ stage \in Seq(Capsules) /\ last.touched \in BOOLEAN
  BY DEF Types, LastType
<1>1. Request => UNCHANGED <<Others, ids, pc0>>
  BY DEF Request, Others, pause, flash, runtime, core1, history
<1>2. ASSUME NEW o, NEW state \in {"accepted", "verified"}, Checked(o, state)
      PROVE  BlocksConsole /\ ~Active /\ last.error = "none"
  BY <1>2 DEF Checked, BlocksConsole, Transaction
<1>3. ASSUME NEW error \in Errors \ {"install_failed"}, pc0 = "loop", BlocksConsole, ~Active,
             Failed(error, last.touched), Request
      PROVE  Goal
  BY <1>0, <1>1, <1>3, FailedEffect DEF Staged, Ended, Kept
<1>4. ASSUME NEW o \in Owners, NEW c \in Capsules, NEW n \in 1..MaxChunk, Chunk(o, c, n)
      PROVE  Goal
  <2>1. Checked(o, "accepted") /\ Request /\ pc0 = "loop"
    BY <1>4 DEF Chunk
  <2>2. last' = [last EXCEPT !.received = last.received + n] /\ last.received + n \in Nat
    BY <1>4, <1>0, StatefulAssumption, SMTT(30) DEF Chunk, LastType
  <2>3. last' \in LastType
    BY <1>0, <2>2, Zenon DEF LastType
  <2>4. last'.state = "accepted" /\ Kept /\ last'.error = last.error
    BY <1>0, <2>1, <2>2 DEF LastType, Kept, Checked
  <2>5. stage' \in Seq(Capsules)
    <3>1. [i \in 1..n |-> c] \in Seq(Capsules)
      BY StatefulAssumption
    <3> QED BY <1>0, <1>4, <3>1 DEF Chunk
  <2> QED BY <1>1, <1>2, <2>1, <2>3, <2>4, <2>5 DEF Staged, Moved
<1>5. ASSUME NEW o \in Owners, Finish(o) PROVE Goal
  <2>1. Checked(o, "accepted") /\ Request /\ pc0 = "loop"
    BY <1>5 DEF Finish
  <2>2. CASE last' = [last EXCEPT !.state = "verified"] /\ stage' = stage
    <3>1. last' \in LastType
      BY <1>0, <2>2, Zenon DEF LastType, States
    <3>2. last'.state = "verified" /\ Kept /\ last'.error = last.error
      BY <1>0, <2>2 DEF LastType, Kept
    <3> QED BY <1>0, <1>1, <1>2, <2>1, <2>2, <3>1, <3>2 DEF Staged, Moved
  <2>3. CASE Failed("digest_mismatch", last.touched) \/ Failed("invalid_image", last.touched)
    BY <1>2, <1>3, <2>1, <2>3 DEF Errors
  <2> QED BY <1>5, <2>2, <2>3, Zenon DEF Finish
<1>6. ASSUME NEW o \in Owners, Commit(o) PROVE Goal
  <2>1. Checked(o, "verified") /\ Request /\ pc0 = "loop"
        /\ last' = [last EXCEPT !.state = "committing"] /\ stage' = stage
    BY <1>6 DEF Commit
  <2>2. last' \in LastType
    BY <1>0, <2>1, Zenon DEF LastType, States
  <2>3. last'.state = "committing" /\ Kept /\ last'.error = last.error
    BY <1>0, <2>1 DEF LastType, Kept
  <2> QED BY <1>0, <1>1, <1>2, <2>1, <2>2, <2>3 DEF Staged, Moved
<1>7. ASSUME NEW o \in Owners, Abandon(o) PROVE Goal
  <2>1. Uncommitted(o) /\ Request /\ pc0 = "loop" /\ stage' = <<>>
    BY <1>7 DEF Abandon
  <2>2. BlocksConsole /\ ~Active /\ last.error = "none"
    BY <1>2, <2>1 DEF Uncommitted
  <2>3. PICK error \in {"none", "disconnected"} :
          last' = [last EXCEPT !.state = "aborted", !.error = error]
    BY <1>7, <2>2, Zenon DEF Abandon
  <2>4. last' \in LastType
    <3>1. "aborted" \in States /\ error \in Errors
      BY DEF States, Errors
    <3> QED BY <1>0, <2>3, <3>1, Zenon DEF LastType
  <2>5. last'.state = "aborted" /\ Kept /\ last'.error = error
    BY <1>0, <2>3 DEF LastType, Kept
  <2> QED BY <1>1, <2>1, <2>2, <2>4, <2>5 DEF Staged, Ended
<1>8. CASE PollExpired
  BY <1>3, <1>8 DEF PollExpired, Expired, Errors
<1> QED BY <1>4, <1>5, <1>6, <1>7, <1>8

----------------------------------------------------------------------------
\* The types the argument needs are kept.
LEMMA TypesStep ==
  ASSUME Types, Transaction, Next
  PROVE  Types'
<1> USE StatefulAssumption DEF txVars, pause, flash, runtime, core1, history
<1>0. /\ last \in LastType /\ ids \in Nat /\ stage \in Seq(Capsules)
      /\ snapshot \in Seq(Capsules) /\ slot \in Contents /\ page \in Nat
      /\ lastGen \in Nat /\ published \in 0..lastGen /\ observed \in 0..lastGen
  BY DEF Types
<1>1. <<>> \in Seq(Capsules) /\ 0 \in Nat /\ 1 \in Nat /\ 0 \in 0..lastGen
  BY <1>0
<1>2. Blank \in Contents
  BY DEF Blank, Contents
<1>3. ASSUME NEW o \in Owners, NEW c \in Capsules, Begin(o, c) PROVE Types'
  <2>1. last' \in LastType /\ ids' \in Nat
    BY <1>3, BeginEffect
  <2> QED BY <1>0, <1>1, <1>3, <2>1 DEF Begin, Types
<1>4. CASE \/ \E o \in Owners :
                \/ \E c \in Capsules, n \in 1..MaxChunk : Chunk(o, c, n)
                \/ Finish(o) \/ Commit(o) \/ Abandon(o)
           \/ PollExpired
  <2>1. last' \in LastType /\ stage' \in Seq(Capsules) /\ Staged
    BY <1>4, StagedEffect
  <2> QED BY <1>0, <2>1 DEF Staged, Others, Types
<1>5. CASE PollConfirm
  <2>1. last' \in LastType
    BY <1>0, <1>5, Zenon DEF PollConfirm, LastType, States
  <2> QED BY <1>0, <1>5, <2>1 DEF PollConfirm, Request, Types
<1>6. CASE PollCommit
  <2>1. ASSUME NEW error \in {"io_error", "unauthorized"}, Failed(error, last.touched)
        PROVE  last' \in LastType /\ stage' \in Seq(Capsules)
    <3>1. error \in Errors /\ last.touched \in BOOLEAN
      BY <1>0 DEF Errors, LastType
    <3> QED BY <2>1, <3>1, FailedEffect
  <2>2. last' \in LastType /\ stage' \in Seq(Capsules)
    BY <1>0, <1>6, <2>1, Zenon DEF PollCommit
  <2>3. snapshot' \in {stage, snapshot}
    BY <1>6, Zenon DEF PollCommit
  <2> QED BY <1>0, <1>6, <2>2, <2>3 DEF PollCommit, Types
<1>7. CASE RequestStore
  BY <1>0, <1>1, <1>7 DEF RequestStore, Types
<1>8. ASSUME NEW error \in {"unauthorized", "park_timeout", "install_failed"},
             NEW touched \in BOOLEAN, GaveUp(error, touched)
      PROVE  last' \in LastType /\ stage' \in Seq(Capsules) /\ snapshot' \in Seq(Capsules)
  <2>1. error \in Errors
    BY DEF Errors
  <2> QED BY <1>1, <1>8, <2>1, GaveUpEffect, Zenon DEF GivenUp
<1>9. ASSUME NEW next, Going(next)
      PROVE  last' \in LastType /\ stage' \in Seq(Capsules) /\ snapshot' \in Seq(Capsules)
  BY <1>0, <1>9, Zenon DEF Going
<1>10. CASE PollWaiting
  <2>1. last' \in LastType /\ stage' \in Seq(Capsules) /\ snapshot' \in Seq(Capsules)
    BY <1>0, <1>8, <1>10, Zenon DEF PollWaiting
  <2> QED BY <1>0, <1>10, <2>1 DEF PollWaiting, Types
<1>11. CASE CheckParked
  <2>1. [last EXCEPT !.touched = FALSE] \in LastType
    BY <1>0, Zenon DEF LastType
  <2>2. last' \in LastType /\ stage' \in Seq(Capsules) /\ snapshot' \in Seq(Capsules)
    BY <1>0, <1>8, <1>11, <2>1, Zenon DEF CheckParked
  <2>3. lastGen' = lastGen /\ published' \in {0, published}
    BY <1>11, Zenon DEF CheckParked, Stopped
  <2> QED BY <1>0, <1>1, <1>11, <2>2, <2>3, Zenon DEF CheckParked, Types
<1>12. CASE FlashBegin
  <2>1. last' \in LastType /\ stage' \in Seq(Capsules) /\ snapshot' \in Seq(Capsules)
    BY <1>8, <1>9, <1>12, Zenon DEF FlashBegin
  <2> QED BY <1>0, <1>12, <2>1 DEF FlashBegin, Install, Types
<1>13. CASE FlashErase
  <2>1. last' \in LastType /\ stage' \in Seq(Capsules) /\ snapshot' \in Seq(Capsules)
    BY <1>8, <1>9, <1>13, Zenon DEF FlashErase
  <2>2. [Blank EXCEPT ![SlotPages] = Bad] \in Contents
    BY <1>2, Zenon DEF Contents
  <2>3. slot' \in Contents /\ page' \in Nat
    <3>1. slot' \in {slot, Blank, [Blank EXCEPT ![SlotPages] = Bad]} /\ page' \in {1, page}
      BY <1>13, Zenon DEF FlashErase
    <3> QED BY <1>0, <1>1, <1>2, <2>2, <3>1, Zenon
  <2> QED BY <1>0, <1>13, <2>1, <2>3 DEF FlashErase, Install, Types
<1>14. CASE FlashProgram
  <2>1. last' \in LastType /\ stage' \in Seq(Capsules) /\ snapshot' \in Seq(Capsules)
    BY <1>8, <1>9, <1>14, Zenon DEF FlashProgram
  <2>2. snapshot[page] \in Capsules
    BY <1>0, <1>14 DEF FlashProgram, Transaction
  <2>3. slot' \in Contents
    BY <1>0, <1>14, <2>2, Zenon DEF FlashProgram, Contents
  <2>4. page' \in Nat
    <3>1. page' \in {page, page + 1}
      BY <1>14, Zenon DEF FlashProgram
    <3> QED BY <1>0, <3>1
  <2> QED BY <1>0, <1>14, <2>1, <2>3, <2>4 DEF FlashProgram, Install, Types
<1>15. CASE ReadBack
  <2>1. last' \in LastType /\ stage' \in Seq(Capsules) /\ snapshot' \in Seq(Capsules)
    BY <1>8, <1>9, <1>15, Zenon DEF ReadBack
  <2>2. lastGen' \in {lastGen, lastGen + 1}
    BY <1>15, Zenon DEF ReadBack, Initialised
  <2> QED BY <1>0, <1>15, <2>1, <2>2 DEF ReadBack, Types
<1>16. CASE Publish
  <2>1. last' \in LastType
    <3>1. [last EXCEPT !.state = "installed", !.touched = TRUE, !.gen = lastGen] \in LastType
      <4>1. "installed" \in States
        BY DEF States
      <4> QED BY <1>0, <4>1, Zenon DEF LastType
    <3> QED BY <1>0, <1>16, <3>1, Zenon DEF Publish
  <2> QED BY <1>0, <1>1, <1>16, <2>1 DEF Publish, Released, Types
<1>17. CASE Boot
  <2>1. lastGen' \in {lastGen, lastGen + 1}
    BY <1>17, Zenon DEF Boot, Initialised
  <2> QED BY <1>0, <1>17, <2>1 DEF Boot, Types
<1>18. CASE Core1 \/ Sketch
  <2>1. observed' \in {observed, published}
    BY <1>18, Zenon DEF Core1, Sketch, Park, ParkStore, TickLoad, StoreReturned, SetupReturns,
       LoopReturns
  <2>2. Core1Only
    BY <1>18 DEF Core1, Sketch, Park, ParkStore, TickLoad, StoreReturned, SetupReturns,
       LoopReturns
  <2> QED BY <1>0, <2>1, <2>2 DEF Core1Only, Types
<1>19. CASE ToggleArm
  BY <1>19 DEF ToggleArm, Types
<1>20. CASE Tick
  BY <1>20 DEF Tick, Types
<1>21. CASE PowerCycle
  <2>1. NoUpload \in LastType
    BY DEF NoUpload, LastType, States, Errors
  <2> QED BY <1>0, <1>1, <1>21, <2>1 DEF PowerCycle, Types
<1> QED BY <1>3, <1>4, <1>5, <1>6, <1>7, <1>10, <1>11, <1>12, <1>13, <1>14, <1>15, <1>16,
           <1>17, <1>18, <1>19, <1>20, <1>21, Zenon DEF Next, Requests, Core0

----------------------------------------------------------------------------
\* A whole capsule is not empty.
LEMMA WholeIsActive ==
  ASSUME NEW data \in Seq(Capsules), NEW c, Whole(data, c)
  PROVE  data # <<>> /\ c \in Capsules /\ Len(data) = Size[c] /\ Len(data) \in 2..SlotPages
  BY StatefulAssumption DEF Whole

\* A step that leaves the park handshake alone preserves what is said of it.
LEMMA HandshakeFrame ==
  ASSUME Handshake, UNCHANGED <<snapshot, requested, parked, pc0, pc1>>
  PROVE  Handshake'
  BY DEF Handshake, Active, Flashing, FlashPhases

\* Replacement::release ends the handshake on core 0's side.
LEMMA HandshakeReleased ==
  ASSUME Handshake, snapshot' = <<>>, ~requested', pc0' = "loop", UNCHANGED <<parked, pc1>>
  PROVE  Handshake'
  BY DEF Handshake, Active, Flashing, FlashPhases

\* The handshake is kept by every step.
LEMMA HandshakeStep ==
  ASSUME Types, Transaction, Handshake, Next
  PROVE  Handshake'
<1> USE DEF txVars, pause, flash, runtime, core1, history
<1>1. ASSUME NEW o \in Owners, NEW c \in Capsules, Begin(o, c) PROVE Handshake'
  BY <1>1, HandshakeFrame DEF Begin
<1>2. CASE \/ \E o \in Owners :
                \/ \E c \in Capsules, n \in 1..MaxChunk : Chunk(o, c, n)
                \/ Finish(o) \/ Commit(o) \/ Abandon(o)
           \/ PollExpired
  <2>1. Staged
    BY <1>2, StagedEffect
  <2> QED BY <2>1, HandshakeFrame DEF Staged, Others
<1>3. CASE PollConfirm
  BY <1>3, HandshakeFrame DEF PollConfirm, Request
<1>4. CASE PollCommit
  <2>1. CASE UNCHANGED <<snapshot, pc0>>
    BY <1>4, <2>1, HandshakeFrame DEF PollCommit
  <2>2. CASE /\ Whole(stage, last.capsule) /\ PauseFree
             /\ snapshot' = stage /\ pc0' = "request"
    <3>1. snapshot' # <<>>
      BY <2>2, WholeIsActive DEF Types
    <3> QED BY <1>4, <2>2, <3>1 DEF PollCommit, PauseFree, ParkIsPrompt, Handshake, Active,
               Flashing, FlashPhases
  <2> QED BY <1>4, <2>1, <2>2, Zenon DEF PollCommit
<1>5. CASE RequestStore
  <2>1. Active /\ pc0' = "check" /\ requested' /\ snapshot' = snapshot
        /\ parked' = parked /\ pc1' = pc1 /\ pc1 \notin {"store", "spin", "clear"}
    BY <1>5 DEF RequestStore, Transaction, Handshake
  <2> QED BY <2>1 DEF Handshake, Active, Flashing, FlashPhases
<1>6. ASSUME NEW error \in {"unauthorized", "park_timeout", "install_failed"},
             NEW touched \in BOOLEAN, GaveUp(error, touched), UNCHANGED <<parked, pc1>>
      PROVE  Handshake'
  <2>1. GivenUp(error, touched)
    BY <1>6, GaveUpEffect DEF Errors
  <2> QED BY <1>6, <2>1, HandshakeReleased DEF GivenUp
<1>7. CASE PollWaiting
  <2>0. UNCHANGED <<parked, pc1>>
    BY <1>7 DEF PollWaiting
  <2>1. CASE Active /\ pc0' = "check" /\ UNCHANGED <<snapshot, requested>>
    BY <1>7, <2>0, <2>1 DEF PollWaiting, Handshake, Active, Flashing, FlashPhases
  <2> QED BY <1>6, <1>7, <2>0, <2>1, Zenon DEF PollWaiting
<1>8. CASE CheckParked
  <2>0. UNCHANGED <<parked, pc1>> /\ Active /\ requested /\ pc0 = "check"
    BY <1>8 DEF CheckParked, Transaction, Handshake
  <2>1. CASE pc0' = "loop" /\ UNCHANGED <<snapshot, requested>>
    BY <2>0, <2>1 DEF Handshake, Active, Flashing, FlashPhases
  <2>2. CASE parked /\ pc0' = "begin" /\ UNCHANGED <<snapshot, requested>>
    BY <2>0, <2>2 DEF Handshake, Active, Flashing, FlashPhases
  <2> QED BY <1>6, <1>8, <2>0, <2>1, <2>2, Zenon DEF CheckParked
<1>9. ASSUME NEW next \in FlashPhases \cup {"publish"}, Flashing, Going(next),
             UNCHANGED <<parked, pc1>>
      PROVE  Handshake'
  <2>1. requested /\ pc1 = "spin" /\ Active
    BY <1>9 DEF Handshake
  <2>2. pc0' = next /\ UNCHANGED <<snapshot, requested>>
    BY <1>9 DEF Going
  <2> QED BY <1>9, <2>1, <2>2 DEF Handshake, Active, Flashing, FlashPhases
<1>10. CASE FlashBegin
  BY <1>6, <1>9, <1>10, Zenon DEF FlashBegin, Install, Flashing, FlashPhases
<1>11. CASE FlashErase
  BY <1>6, <1>9, <1>11, Zenon DEF FlashErase, Install, Flashing, FlashPhases
<1>12. CASE FlashProgram
  BY <1>6, <1>9, <1>12, Zenon DEF FlashProgram, Install, Flashing, FlashPhases
<1>13. CASE ReadBack
  BY <1>6, <1>9, <1>13, Zenon DEF ReadBack, Flashing, FlashPhases
<1>14. CASE Publish
  BY <1>14, HandshakeReleased DEF Publish, Released
<1>15. CASE Boot
  <2>1. pc0 = "boot" /\ pc0' \in {"publish", "loop"}
        /\ UNCHANGED <<snapshot, requested, parked, pc1>>
    BY <1>15 DEF Boot
  <2> QED BY <2>1 DEF Handshake, Active, Flashing, FlashPhases
<1>16. CASE Core1 \/ Sketch
  <2>0. UNCHANGED <<snapshot, requested, pc0>>
    BY <1>16 DEF Core1, Sketch, Park, ParkStore, TickLoad, StoreReturned, SetupReturns,
       LoopReturns, Core1Only
  <2>1. CASE Park
    BY <2>0, <2>1 DEF Park, Handshake, Active, Flashing, FlashPhases
  <2>2. CASE ParkStore
    BY <2>0, <2>2 DEF ParkStore, Handshake, Active, Flashing, FlashPhases
  <2>3. CASE TickLoad \/ StoreReturned \/ Sketch
    <3>1. /\ pc1 \notin {"spin", "clear"} /\ pc1' \in {"top", "setup", "sketch", "ret"}
          /\ parked' = parked
      BY <2>3 DEF Sketch, TickLoad, StoreReturned, SetupReturns, LoopReturns
    <3> QED BY <2>0, <3>1 DEF Handshake, Active, Flashing, FlashPhases
  <2> QED BY <1>16, <2>1, <2>2, <2>3 DEF Core1
<1>17. CASE ToggleArm
  BY <1>17, HandshakeFrame DEF ToggleArm
<1>18. CASE Tick
  BY <1>18, HandshakeFrame DEF Tick
<1>19. CASE PowerCycle
  BY <1>19 DEF PowerCycle, Handshake, Active, Flashing, FlashPhases
<1> QED BY <1>1, <1>2, <1>3, <1>4, <1>5, <1>7, <1>8, <1>10, <1>11, <1>12, <1>13, <1>14,
           <1>15, <1>16, <1>17, <1>18, <1>19, Zenon DEF Next, Requests, Core0

----------------------------------------------------------------------------
\* A step that leaves the transaction alone preserves what is said of it.
LEMMA TransactionFrame ==
  ASSUME Transaction, UNCHANGED <<last, pending, snapshot, page, pc0>>
  PROVE  Transaction'
  BY DEF Transaction, BlocksConsole, Active, Whole

\* A replacement that gives up leaves an ended record.
LEMMA TransactionGivenUp ==
  ASSUME Transaction, NEW error, NEW touched, GivenUp(error, touched)
  PROVE  Transaction'
  BY DEF GivenUp, Transaction, BlocksConsole, Active

\* The record and the snapshot are kept by every step.
LEMMA TransactionStep ==
  ASSUME Types, Transaction, Handshake, Next
  PROVE  Transaction'
<1> USE DEF txVars, pause, flash, runtime, core1, history
<1>1. ASSUME NEW o \in Owners, NEW c \in Capsules, Begin(o, c) PROVE Transaction'
  <2>1. /\ last'.id # 0 /\ last'.capsule = c /\ ~last'.touched /\ last'.error = "none"
    BY <1>1, BeginEffect
  <2>2. pc0 = "loop" /\ ~Active /\ UNCHANGED <<snapshot, pc0>>
    BY <1>1 DEF Begin
  <2> QED BY <2>1, <2>2 DEF Transaction, BlocksConsole, Active
<1>2. CASE \/ \E o \in Owners :
                \/ \E c \in Capsules, n \in 1..MaxChunk : Chunk(o, c, n)
                \/ Finish(o) \/ Commit(o) \/ Abandon(o)
           \/ PollExpired
  <2>1. Staged
    BY <1>2, StagedEffect
  <2> QED BY <2>1 DEF Staged, Moved, Ended, Kept, Others, Transaction, BlocksConsole, Active
<1>3. CASE PollConfirm
  <2>1. last' = [last EXCEPT !.state = "boot_confirmed"] /\ last.id # 0
        /\ last.state = "installed" /\ pc0 = "loop" /\ UNCHANGED <<snapshot, pc0>>
    BY <1>3 DEF PollConfirm, Request
  <2>2. last'.id = last.id /\ last'.capsule = last.capsule /\ last'.state = "boot_confirmed"
    BY <2>1 DEF Types, LastType
  <2> QED BY <2>1, <2>2 DEF Transaction, BlocksConsole, Active
<1>4. CASE PollCommit
  <2>0. /\ pc0 = "loop" /\ last.id # 0 /\ last.state = "committing" /\ pending /\ ~Active
    BY <1>4 DEF PollCommit, Transaction
  <2>1. ASSUME NEW error \in {"io_error", "unauthorized"}, Failed(error, last.touched),
               UNCHANGED <<snapshot, pc0>>
        PROVE  Transaction'
    <3>1. last.touched \in BOOLEAN /\ error \in Errors
      BY DEF Types, LastType, Errors
    <3>2. last'.id = last.id /\ last'.capsule = last.capsule /\ last'.state = "failed"
      BY <2>1, <3>1, FailedEffect
    <3> QED BY <2>0, <2>1, <3>2 DEF Transaction, BlocksConsole, Active
  <2>2. CASE /\ Whole(stage, last.capsule) /\ pending' = FALSE
             /\ snapshot' = stage /\ pc0' = "request" /\ UNCHANGED last
    <3>1. snapshot' # <<>> /\ Whole(snapshot, last.capsule)'
      BY <2>2, WholeIsActive DEF Types, Whole
    <3> QED BY <2>0, <2>2, <3>1 DEF Transaction, BlocksConsole, Active
  <2> QED BY <1>4, <2>1, <2>2, Zenon DEF PollCommit
<1>5. CASE RequestStore
  <2>1. pc0 = "request" /\ pc0' = "check" /\ UNCHANGED <<last, pending, snapshot>>
    BY <1>5 DEF RequestStore
  <2> QED BY <2>1 DEF Transaction, BlocksConsole, Active, Whole
<1>6. ASSUME NEW error \in {"unauthorized", "park_timeout", "install_failed"},
             NEW touched \in BOOLEAN, GaveUp(error, touched)
      PROVE  Transaction'
  <2>1. GivenUp(error, touched)
    BY <1>6, GaveUpEffect DEF Errors
  <2> QED BY <2>1, TransactionGivenUp
<1>7. CASE PollWaiting
  <2>1. CASE Active /\ pc0' = "check" /\ UNCHANGED <<last, pending, snapshot>>
    BY <2>1 DEF Transaction, BlocksConsole, Active, Whole
  <2> QED BY <1>6, <1>7, <2>1, Zenon DEF PollWaiting
<1>8. CASE CheckParked
  <2>0. Active /\ pc0 = "check"
    BY <1>8 DEF CheckParked, Transaction
  <2>1. CASE /\ last' = [last EXCEPT !.touched = FALSE]
             /\ pc0' = "loop" /\ UNCHANGED <<pending, snapshot>>
    <3>1. /\ last'.id = last.id /\ last'.capsule = last.capsule /\ last'.state = last.state
          /\ ~last'.touched /\ last'.error = last.error
      BY <2>1 DEF Types, LastType
    <3> QED BY <2>0, <2>1, <3>1 DEF Transaction, BlocksConsole, Active, Whole
  <2>2. CASE pc0' = "begin" /\ UNCHANGED <<last, pending, snapshot>>
    BY <2>0, <2>2 DEF Transaction, BlocksConsole, Active, Whole
  <2> QED BY <1>6, <1>8, <2>1, <2>2, Zenon DEF CheckParked
<1>9. ASSUME NEW next \in {"erase", "program", "readback", "publish"}, Flashing, Going(next),
             next = "program" => page' \in 1..Len(snapshot)
      PROVE  Transaction'
  <2>1. Active /\ pc0' = next /\ UNCHANGED <<last, pending, snapshot>>
    BY <1>9 DEF Going, Transaction, Flashing, FlashPhases
  <2> QED BY <1>9, <2>1 DEF Transaction, BlocksConsole, Active, Whole
<1>10. CASE FlashBegin
  BY <1>6, <1>9, <1>10, Zenon DEF FlashBegin, Flashing, FlashPhases
<1>11. CASE FlashErase
  <2>1. Flashing /\ Len(snapshot) \in 2..SlotPages
    BY <1>11, WholeIsActive DEF FlashErase, Transaction, Types, Flashing, FlashPhases
  <2>2. 1 \in 1..Len(snapshot)
    BY <2>1, StatefulAssumption
  <2> QED BY <1>6, <1>9, <1>11, <2>1, <2>2, Zenon DEF FlashErase
<1>12. CASE FlashProgram
  <2>1. Flashing /\ page \in 1..Len(snapshot) /\ Len(snapshot) \in Nat
    BY <1>12 DEF FlashProgram, Transaction, Types, Flashing, FlashPhases
  <2>2. page # Len(snapshot) => page + 1 \in 1..Len(snapshot)
    BY <2>1
  <2> QED BY <1>6, <1>9, <1>12, <2>1, <2>2, Zenon DEF FlashProgram
<1>13. CASE ReadBack
  BY <1>6, <1>9, <1>13, Zenon DEF ReadBack, Flashing, FlashPhases
<1>14. CASE Publish
  <2>1. pc0' = "loop" /\ snapshot' = <<>>
    BY <1>14 DEF Publish, Released
  <2>2. CASE ~Active
    BY <1>14, <2>1, <2>2, ZenonT(30) DEF Publish, Transaction, BlocksConsole, Active
  <2>3. CASE Active
    <3>1. last'.id = last.id /\ last'.capsule = last.capsule /\ last'.state = "installed"
      BY <1>14, <2>3, Zenon DEF Publish, Types, LastType
    <3> QED BY <2>1, <3>1 DEF Transaction, BlocksConsole, Active
  <2> QED BY <2>2, <2>3
<1>15. CASE Boot
  <2>1. pc0 = "boot" /\ pc0' \in {"publish", "loop"} /\ UNCHANGED <<last, pending, snapshot>>
    BY <1>15 DEF Boot
  <2> QED BY <2>1 DEF Transaction, BlocksConsole, Active, Whole
<1>16. CASE Core1 \/ Sketch
  BY <1>16, TransactionFrame DEF Core1, Sketch, Park, ParkStore, TickLoad, StoreReturned,
     SetupReturns, LoopReturns, Core1Only
<1>17. CASE ToggleArm
  BY <1>17, TransactionFrame DEF ToggleArm
<1>18. CASE Tick
  BY <1>18, TransactionFrame DEF Tick
<1>19. CASE PowerCycle
  BY <1>19, ZenonT(30) DEF PowerCycle, Transaction, NoUpload, BlocksConsole, Active
<1> QED BY <1>1, <1>2, <1>3, <1>4, <1>5, <1>7, <1>8, <1>10, <1>11, <1>12, <1>13, <1>14,
           <1>15, <1>16, <1>17, <1>18, <1>19, Zenon DEF Next, Requests, Core0

----------------------------------------------------------------------------
\* Nothing Old speaks of changes, except that more loops may have returned.
LEMMA OldFrame ==
  ASSUME Old, UNCHANGED <<last, slot, published, image, before, pc0, snapshot>>,
         completed \subseteq completed'
  PROVE  Old'
  BY DEF Old, BlocksConsole, Active, FlashPhases, GiveUpKeepsOld, InstalledRuns, Written, Pages

\* A replacement that gives up before the old generation is stopped.
LEMMA OldGivenUp ==
  ASSUME Old, BlocksConsole, pc0 \in {"loop", "check"}, NEW error, error # "install_failed",
         GivenUp(error, FALSE), UNCHANGED <<slot, published, before>>
  PROVE  Old'
  BY DEF Old, GivenUp, BlocksConsole, Active, FlashPhases, GiveUpKeepsOld, InstalledRuns

\* A replacement that gives up afterwards.
LEMMA OldFailed ==
  ASSUME Old, pc0 \in FlashPhases, NEW touched \in BOOLEAN, GivenUp("install_failed", touched),
         touched \/ slot' = before.slot, UNCHANGED <<published, before>>
  PROVE  Old'
  BY DEF Old, GivenUp, BlocksConsole, Active, FlashPhases, GiveUpKeepsOld, InstalledRuns

\* What the read-back accepts is the capsule with erased flash behind it.
LEMMA ReadsBackWritten ==
  ASSUME Types, NEW c, Whole(snapshot, c), ReadsBack(c)
  PROVE  slot = Written(c) /\ Holds(slot, c)
<1>1. c \in Capsules /\ Len(snapshot) = Size[c] /\ Size[c] \in 2..SlotPages
  BY WholeIsActive DEF Types
<1>2. \A i \in Pages : slot[i] = IF i <= Size[c] THEN c ELSE Erased
  BY <1>1, StatefulAssumption DEF ReadsBack, Whole, Pages
<1>3. slot = [i \in Pages |-> slot[i]]
  BY DEF Types, Contents
<1>4. slot = Written(c)
  BY <1>2, <1>3 DEF Written
<1> QED BY <1>4 DEF ReadsBack

\* The old generation and the slot are kept, or replaced, by every step.
LEMMA OldStep ==
  ASSUME Types, Transaction, Handshake, Old, Memory, Next
  PROVE  Old'
<1> USE DEF txVars, pause, flash, runtime, core1, history
<1>1. ASSUME NEW o \in Owners, NEW c \in Capsules, Begin(o, c) PROVE Old'
  <2>1. last'.state = "accepted"
    BY <1>1, BeginEffect
  <2>2. pc0' = "loop" /\ slot' = slot /\ published' = published
        /\ before' = [slot |-> slot, gen |-> published]
    BY <1>1 DEF Begin
  <2> QED BY <2>1, <2>2 DEF Old, FlashPhases, GiveUpKeepsOld, InstalledRuns
<1>2. CASE \/ \E o \in Owners :
                \/ \E c \in Capsules, n \in 1..MaxChunk : Chunk(o, c, n)
                \/ Finish(o) \/ Commit(o) \/ Abandon(o)
           \/ PollExpired
  <2>1. Staged
    BY <1>2, StagedEffect
  <2>2. /\ pc0' = "loop" /\ UNCHANGED <<slot, published, before>>
        /\ slot = before.slot /\ published = before.gen /\ ~last'.touched
    BY <2>1 DEF Staged, Moved, Ended, Kept, Others, Old, FlashPhases, Transaction
  <2>3. \/ last'.state \in {"accepted", "verified", "committing"}
        \/ last'.state \in {"aborted", "failed"} /\ last'.error # "install_failed"
    BY <2>1 DEF Staged, Moved, Ended
  <2> QED BY <2>2, <2>3 DEF Old, FlashPhases, GiveUpKeepsOld, InstalledRuns
<1>3. CASE PollConfirm
  <2>1. last' = [last EXCEPT !.state = "boot_confirmed"] /\ last.id # 0
        /\ last.state = "installed" /\ pc0' = "loop" /\ LoopReturned
        /\ UNCHANGED <<slot, published, image, completed>>
    BY <1>3 DEF PollConfirm, Request
  <2>2. last'.id = last.id /\ last'.capsule = last.capsule /\ last'.gen = last.gen
        /\ last'.state = "boot_confirmed"
    BY <2>1 DEF Types, LastType
  <2>3. last.gen \in completed
    BY <2>1 DEF LoopReturned, Memory
  <2>4. InstalledRuns'
    BY <2>1, <2>2, <2>3 DEF Old, InstalledRuns, Written, Pages
  <2> QED BY <2>1, <2>2, <2>4 DEF Old, FlashPhases, GiveUpKeepsOld, BlocksConsole
<1>4. CASE PollCommit
  <2>0. /\ BlocksConsole /\ pc0 = "loop" /\ UNCHANGED <<slot, published, image, before, completed>>
    BY <1>4, SMTT(30) DEF PollCommit, BlocksConsole
  <2>1. ASSUME NEW error \in {"io_error", "unauthorized"}, Failed(error, last.touched),
               UNCHANGED <<snapshot, pc0>>
        PROVE  Old'
    <3>1. last.touched \in BOOLEAN /\ error \in Errors
      BY DEF Types, LastType, Errors
    <3>2. last'.state = "failed" /\ last'.error = error /\ last'.touched = last.touched
      BY <2>1, <3>1, FailedEffect
    <3> QED BY <2>0, <2>1, <3>2 DEF Old, Transaction, FlashPhases, GiveUpKeepsOld, InstalledRuns,
               BlocksConsole
  <2>2. CASE pc0' = "request" /\ UNCHANGED last
    BY <2>0, <2>2 DEF Old, FlashPhases, GiveUpKeepsOld, InstalledRuns, BlocksConsole
  <2> QED BY <1>4, <2>1, <2>2, Zenon DEF PollCommit
<1>5. CASE RequestStore
  <2>1. pc0 = "request" /\ pc0' = "check"
        /\ UNCHANGED <<last, slot, published, image, before, completed>>
    BY <1>5 DEF RequestStore
  <2>2. BlocksConsole
    BY <2>1 DEF Transaction, BlocksConsole
  <2> QED BY <2>1, <2>2 DEF Old, FlashPhases, GiveUpKeepsOld, InstalledRuns, BlocksConsole
<1>6. ASSUME NEW error \in {"unauthorized", "park_timeout"}, pc0 \in {"loop", "check"},
             BlocksConsole, GaveUp(error, FALSE), UNCHANGED <<slot, published, before>>
      PROVE  Old'
  <2>1. GivenUp(error, FALSE)
    BY <1>6, GaveUpEffect, Zenon DEF Errors
  <2> QED BY <1>6, <2>1, OldGivenUp, Zenon
<1>7. CASE PollWaiting
  <2>0. /\ pc0 = "loop" /\ BlocksConsole /\ UNCHANGED <<slot, published, image, before, completed>>
    BY <1>7 DEF PollWaiting, BlocksConsole
  <2>1. CASE pc0' = "check" /\ UNCHANGED last
    BY <2>0, <2>1 DEF Old, FlashPhases, GiveUpKeepsOld, InstalledRuns, BlocksConsole
  <2> QED BY <1>6, <1>7, <2>0, <2>1, Zenon DEF PollWaiting
<1>8. CASE CheckParked
  <2>0. /\ pc0 = "check" /\ BlocksConsole /\ last.state = "committing"
        /\ UNCHANGED <<slot, before, completed>>
    BY <1>8 DEF CheckParked, Transaction, BlocksConsole
  <2>1. CASE last' = [last EXCEPT !.touched = FALSE] /\ pc0' = "loop" /\ UNCHANGED published
    <3>1. last'.state = "committing"
      BY <2>0, <2>1 DEF Types, LastType
    <3> QED BY <2>0, <2>1, <3>1 DEF Old, FlashPhases, GiveUpKeepsOld, InstalledRuns, BlocksConsole
  <2>2. CASE Stopped /\ pc0' = "begin" /\ UNCHANGED last
    BY <2>0, <2>2 DEF Stopped, Old, FlashPhases, GiveUpKeepsOld, InstalledRuns, BlocksConsole
  <2> QED BY <1>6, <1>8, <2>0, <2>1, <2>2, Zenon DEF CheckParked
<1>9. ASSUME NEW next \in {"erase", "program", "readback"}, Flashing, Going(next),
             next = "erase" => pc0 = "begin" /\ slot' = slot,
             UNCHANGED <<published, before>>
      PROVE  Old'
  <2>1. pc0' = next /\ UNCHANGED last /\ last.state = "committing"
    BY <1>9 DEF Going, Transaction, Flashing, FlashPhases
  <2> QED BY <1>9, <2>1 DEF Old, Flashing, FlashPhases, GiveUpKeepsOld, InstalledRuns, BlocksConsole
<1>10. ASSUME NEW touched \in BOOLEAN, Flashing, GaveUp("install_failed", touched),
              touched \/ slot' = before.slot, UNCHANGED <<published, before>>
       PROVE  Old'
  <2>1. GivenUp("install_failed", touched)
    BY <1>10, GaveUpEffect DEF Errors
  <2> QED BY <1>10, <2>1, OldFailed DEF Flashing
<1>11. CASE FlashBegin
  <2>1. Flashing /\ pc0 = "begin" /\ slot' = slot /\ slot = before.slot
        /\ UNCHANGED <<published, before>>
    BY <1>11 DEF FlashBegin, Install, Flashing, FlashPhases, Transaction, Old, BlocksConsole
  <2> QED BY <1>9, <1>10, <1>11, <2>1, Zenon DEF FlashBegin
<1>12. CASE FlashErase
  <2>1. Flashing /\ UNCHANGED <<published, before>>
    BY <1>12 DEF FlashErase, Install, Flashing, FlashPhases
  <2> QED BY <1>9, <1>10, <1>12, <2>1, Zenon DEF FlashErase
<1>13. CASE FlashProgram
  <2>1. Flashing /\ UNCHANGED <<published, before>>
    BY <1>13 DEF FlashProgram, Install, Flashing, FlashPhases
  <2> QED BY <1>9, <1>10, <1>13, <2>1, Zenon DEF FlashProgram
<1>14. CASE ReadBack
  <2>1. Flashing /\ UNCHANGED <<slot, published, before>> /\ published = 0
    BY <1>14 DEF ReadBack, Flashing, FlashPhases, Old
  <2>2. CASE ReadsBack(last.capsule) /\ Initialised(last.capsule) /\ Going("publish")
    <3>1. Active /\ Whole(snapshot, last.capsule) /\ last.state = "committing"
      BY <2>1 DEF Transaction, Flashing, FlashPhases
    <3>2. slot = Written(last.capsule)
      BY <2>2, <3>1, ReadsBackWritten
    <3>3. image' = last.capsule /\ pc0' = "publish" /\ UNCHANGED last
      BY <2>2 DEF Initialised, Going
    <3>4. slot' = Written(last.capsule)'
      BY <2>1, <3>2, <3>3 DEF Written, Pages
    <3> QED BY <2>1, <3>1, <3>3, <3>4 DEF Old, FlashPhases, GiveUpKeepsOld, InstalledRuns
  <2> QED BY <1>10, <1>14, <2>1, <2>2, Zenon DEF ReadBack
<1>15. CASE Publish
  <2>1. pc0' = "loop" /\ published' = lastGen /\ lastGen # 0 /\ snapshot' = <<>>
        /\ UNCHANGED <<slot, image, before, completed>>
    BY <1>15 DEF Publish, Released, Memory
  <2>2. CASE ~Active
    BY <1>15, <2>1, <2>2, ZenonT(30) DEF Publish, Transaction, Old, FlashPhases, BlocksConsole,
       GiveUpKeepsOld, InstalledRuns
  <2>3. CASE Active
    <3>1. last'.capsule = last.capsule /\ last'.state = "installed" /\ last'.gen = lastGen
      BY <1>15, <2>3, Zenon DEF Publish, Types, LastType
    <3>2. slot = Written(last.capsule) /\ image = last.capsule
      BY <1>15, <2>3, Zenon DEF Publish, Old
    <3>3. slot' = Written(last.capsule)' /\ image' = last'.capsule
      BY <2>1, <3>1, <3>2, ZenonT(30) DEF Written, Pages
    <3> QED BY <2>1, <3>1, <3>3 DEF Old, FlashPhases, BlocksConsole, GiveUpKeepsOld, InstalledRuns
  <2> QED BY <2>2, <2>3
<1>16. CASE Boot
  <2>1. /\ pc0' \in {"publish", "loop"} /\ UNCHANGED <<last, snapshot, published>>
        /\ last.id = 0 /\ ~Active /\ published = 0
    BY <1>16 DEF Boot, Transaction, Old
  <2> QED BY <2>1 DEF Old, FlashPhases, BlocksConsole, Active, GiveUpKeepsOld, InstalledRuns
<1>17. CASE Core1 \/ Sketch
  <2>1. UNCHANGED <<last, slot, published, image, before, pc0, snapshot>>
    BY <1>17 DEF Core1, Sketch, Park, ParkStore, TickLoad, StoreReturned, SetupReturns,
       LoopReturns, Core1Only
  <2>2. completed \subseteq completed'
    BY <1>17 DEF Core1, Sketch, Park, ParkStore, TickLoad, StoreReturned, SetupReturns,
       LoopReturns
  <2> QED BY <2>1, <2>2, OldFrame
<1>18. CASE ToggleArm
  BY <1>18, OldFrame DEF ToggleArm
<1>19. CASE Tick
  BY <1>19, OldFrame, ZenonT(30) DEF Tick
<1>20. CASE PowerCycle
  <2>1. last'.id = 0 /\ pc0' = "boot" /\ published' = 0
    BY <1>20, Zenon DEF PowerCycle, NoUpload
  <2> QED BY <2>1 DEF Old, FlashPhases, BlocksConsole, GiveUpKeepsOld, InstalledRuns
<1> QED BY <1>1, <1>2, <1>3, <1>4, <1>5, <1>7, <1>8, <1>11, <1>12, <1>13, <1>14, <1>15,
           <1>16, <1>17, <1>18, <1>19, <1>20, Zenon DEF Next, Requests, Core0

----------------------------------------------------------------------------
\* A step of core 0 that changes nothing of slot, runtime, arena and core 1.
LEMMA MemoryFrame ==
  ASSUME Memory, pc0' # "publish",
         UNCHANGED <<slot, image, lastGen, published, returned, arena, pc1, current, observed,
                     code1, completed>>
  PROVE  Memory'
  BY DEF Memory, Holds, InSketch

\* While nothing is published core 0 may do what it likes to slot and image.
LEMMA MemoryUnpublished ==
  ASSUME Memory, published = 0, published' = 0, pc0' # "publish",
         returned' = returned, UNCHANGED <<arena, pc1, current, observed, code1, completed>>
  PROVE  Memory'
  BY Zenon DEF Memory, InSketch

\* Runtime::start_exact prepares a generation core 1 has not seen.
LEMMA MemoryInitialised ==
  ASSUME Types, Memory, published = 0, NEW c \in Capsules, Holds(slot, c), Initialised(c),
         pc0' = "publish",
         UNCHANGED <<slot, published, pc1, current, observed, code1, completed>>
  PROVE  Memory'
<1>1. /\ lastGen' = lastGen + 1 /\ arena' = [image |-> c, writers |-> {}]
      /\ image' = c /\ returned' = 0
  BY DEF Initialised
<1>2. lastGen' # 0 /\ observed' # lastGen'
  BY <1>1 DEF Types
<1>3. Holds(slot, image)'
  BY <1>1, Zenon DEF Holds
<1>4. arena' \in [image : Capsules \cup {None}, writers : SUBSET Nat]
  BY <1>1
<1>5. arena'.image = c /\ arena'.writers = {}
  BY <1>1
<1> QED BY <1>1, <1>2, <1>3, <1>4, <1>5, ZenonT(30) DEF Memory, InSketch

\* The published generation keeps its image and its RAM to itself.
LEMMA MemoryStep ==
  ASSUME Types, Transaction, Handshake, Old, Memory, Next
  PROVE  Memory'
<1> USE DEF txVars, pause, flash, runtime, core1, history
<1>1. ASSUME NEW o \in Owners, NEW c \in Capsules, Begin(o, c) PROVE Memory'
  BY <1>1, MemoryFrame DEF Begin
<1>2. CASE \/ \E o \in Owners :
                \/ \E c \in Capsules, n \in 1..MaxChunk : Chunk(o, c, n)
                \/ Finish(o) \/ Commit(o) \/ Abandon(o)
           \/ PollExpired
  <2>1. Staged
    BY <1>2, StagedEffect
  <2> QED BY <2>1, MemoryFrame DEF Staged, Others
<1>3. CASE PollConfirm \/ PollCommit \/ RequestStore \/ PollWaiting
  <2>1. pc0' # "publish"
    BY <1>3, Zenon DEF PollConfirm, Request, PollCommit, RequestStore, PollWaiting, GaveUp, Released
  <2>2. UNCHANGED <<slot, image, lastGen, published, returned, arena, pc1, current, observed,
                    code1, completed>>
    BY <1>3, Zenon DEF PollConfirm, Request, PollCommit, RequestStore, PollWaiting
  <2> QED BY <2>1, <2>2, MemoryFrame
<1>4. CASE CheckParked
  <2>1. pc0' # "publish"
    BY <1>4, Zenon DEF CheckParked, GaveUp, Released
  <2>2. UNCHANGED <<slot, arena, pc1, current, observed, code1, completed>>
    BY <1>4 DEF CheckParked
  <2>3. CASE UNCHANGED runtime
    BY <2>1, <2>2, <2>3, MemoryFrame, Zenon
  <2>4. CASE parked /\ Stopped
    <3>1. ~InSketch /\ ~InSketch'
      BY <2>2, <2>4 DEF Handshake, InSketch
    <3> QED BY <2>1, <2>2, <2>4, <3>1 DEF Stopped, Memory, InSketch
  <2> QED BY <1>4, <2>3, <2>4, Zenon DEF CheckParked
<1>5. CASE FlashBegin \/ FlashErase \/ FlashProgram
  <2>1. published = 0 /\ UNCHANGED <<runtime, arena, pc1, current, observed, code1, completed>>
    BY <1>5, Zenon DEF FlashBegin, FlashErase, FlashProgram, Install, Old, FlashPhases
  <2>2. pc0' # "publish"
    BY <1>5, Zenon DEF FlashBegin, FlashErase, FlashProgram, Going, GaveUp, Released
  <2> QED BY <2>1, <2>2, MemoryUnpublished
<1>6. CASE ReadBack
  <2>1. published = 0 /\ UNCHANGED <<slot, published, pc1, current, observed, code1, completed>>
    BY <1>6 DEF ReadBack, Old, FlashPhases
  <2>2. CASE /\ ReadsBack(last.capsule) /\ Initialised(last.capsule) /\ Going("publish")
    <3>1. last.capsule \in Capsules /\ Holds(slot, last.capsule) /\ pc0' = "publish"
      BY <1>6, <2>2, Zenon DEF ReadBack, ReadsBack, Transaction, Going
    <3> QED BY <2>1, <2>2, <3>1, MemoryInitialised, Zenon
  <2>3. CASE GaveUp("install_failed", TRUE) /\ UNCHANGED <<image, lastGen, returned, arena>>
    <3>1. pc0' = "loop"
      BY <2>3, Zenon DEF GaveUp, Released
    <3> QED BY <2>1, <2>3, <3>1, MemoryUnpublished
  <2> QED BY <1>6, <2>2, <2>3, Zenon DEF ReadBack
<1>7. CASE Publish
  <2>1. /\ published = 0 /\ published' = lastGen /\ lastGen # 0 /\ observed # lastGen
        /\ pc0' = "loop" /\ returned = 0
        /\ UNCHANGED <<slot, image, returned, arena, pc1, observed, completed>>
    BY <1>7 DEF Publish, Released, Old, Memory
  <2>2. ~InSketch /\ ~InSketch'
    BY <2>1 DEF Memory, InSketch
  <2>3. Holds(slot, image)' /\ arena.image = image /\ arena.writers = {}
    BY <1>7, <2>1 DEF Publish, Memory, Holds
  <2> QED BY <2>1, <2>2, <2>3 DEF Memory, InSketch
<1>8. CASE Boot
  <2>1. published = 0 /\ UNCHANGED <<slot, published, pc1, current, observed, code1, completed>>
    BY <1>8 DEF Boot, Old
  <2>2. ASSUME NEW c \in Valid, CanStart(c), Initialised(c), pc0' = "publish" PROVE Memory'
    BY <2>1, <2>2, MemoryInitialised, StatefulAssumption DEF CanStart
  <2>3. CASE pc0' = "loop" /\ UNCHANGED <<image, lastGen, returned, arena>>
    BY <2>1, <2>3, MemoryUnpublished
  <2> QED BY <1>8, <2>2, <2>3, Zenon DEF Boot
<1>9. CASE Core1 \/ Sketch
  <2>0. UNCHANGED <<slot, image, lastGen, published, pc0>> /\ (Holds(slot, image) => Holds(slot, image)')
    BY <1>9, Zenon DEF Core1, Sketch, Park, ParkStore, TickLoad, StoreReturned, SetupReturns,
       LoopReturns, Core1Only, Holds
  <2>1. CASE Park \/ ParkStore
    <3>1. /\ pc1 \notin {"setup", "sketch", "ret"} /\ pc1' \notin {"setup", "sketch", "ret"}
          /\ UNCHANGED <<returned, arena, current, observed, code1, completed>>
      BY <2>1 DEF Park, ParkStore
    <3> QED BY <2>0, <3>1 DEF Memory, InSketch
  <2>2. CASE TickLoad
    <3>1. /\ pc1 = "tick" /\ current' = published /\ observed' = published
          /\ UNCHANGED <<returned, arena, completed>>
          /\ pc0 = "publish" => published = 0
      BY <2>2, Zenon DEF TickLoad, Old
    <3>2. CASE published = 0
      BY <2>0, <2>2, <3>1, <3>2, Zenon DEF TickLoad, Memory, InSketch
    <3>3. CASE published # 0
      BY <2>0, <2>2, <3>1, <3>3, Zenon DEF TickLoad, Memory, InSketch
    <3> QED BY <3>2, <3>3
  <2>3. CASE StoreReturned
    BY <2>0, <2>3, ZenonT(30) DEF StoreReturned, Memory, InSketch
  <2>4. CASE SetupReturns \/ LoopReturns
    <3>1. /\ InSketch /\ published # 0 /\ current = published /\ observed = published
          /\ code1 = image /\ Holds(slot, image) /\ arena.image = image
          /\ arena.writers \in {{}, {published}} /\ pc0 # "publish"
      BY <2>4 DEF SetupReturns, LoopReturns, Memory, InSketch, Old
    <3>2. arena' = [arena EXCEPT !.writers = @ \cup {current}]
      BY <2>4 DEF SetupReturns, LoopReturns
    <3>3. arena' \in [image : Capsules \cup {None}, writers : SUBSET Nat]
          /\ arena'.image = image /\ arena'.writers = {published}
      BY <3>1, <3>2, SMTT(30) DEF Memory, Types
    <3>4. /\ pc1' \in {"sketch", "ret"} /\ UNCHANGED <<returned, current, observed>>
          /\ code1' = image /\ completed \subseteq completed'
          /\ pc1' = "ret" => current \in completed'
      BY <2>4, <3>1 DEF SetupReturns, LoopReturns
    <3> QED BY <2>0, <3>1, <3>3, <3>4 DEF Memory, InSketch
  <2> QED BY <1>9, <2>1, <2>2, <2>3, <2>4 DEF Core1, Sketch
<1>10. CASE ToggleArm \/ Tick
  <2>1. UNCHANGED <<pc0, slot, image, lastGen, published, returned, arena, pc1, current,
                    observed, code1, completed>>
    BY <1>10, Zenon DEF ToggleArm, Tick
  <2> QED BY <2>1, Zenon DEF Memory, Holds, InSketch
<1>11. CASE PowerCycle
  BY <1>11 DEF PowerCycle, Memory, NoArena, InSketch
<1> QED BY <1>1, <1>2, <1>3, <1>4, <1>5, <1>6, <1>7, <1>8, <1>9, <1>10, <1>11, Zenon
       DEF Next, Requests, Core0

----------------------------------------------------------------------------
\* Init establishes the invariant.
LEMMA InitEstablishes == Init => IndInv
<1> SUFFICES ASSUME Init PROVE IndInv
    BY Zenon
<1> USE StatefulAssumption DEF Init
<1>1. Types
  <2>1. slot \in Contents
    BY Zenon DEF Blank, Written, Contents
  <2>2. last \in LastType
    BY Zenon DEF NoUpload, LastType, States, Errors
  <2> QED BY <2>1, <2>2, SMTT(30) DEF Types
<1>2. Handshake
  BY Zenon DEF Handshake, Active, Flashing, FlashPhases
<1>3. Transaction
  BY Zenon DEF Transaction, NoUpload, BlocksConsole, Active
<1>4. Old
  BY Zenon DEF Old, NoUpload, BlocksConsole, FlashPhases, GiveUpKeepsOld, InstalledRuns
<1>5. Memory
  BY DEF Memory, NoArena, InSketch
<1> QED BY <1>1, <1>2, <1>3, <1>4, <1>5 DEF IndInv

\* A stuttering step preserves the invariant.
LEMMA StutterKeeps == IndInv /\ UNCHANGED vars => IndInv'
<1> SUFFICES ASSUME IndInv, UNCHANGED vars PROVE IndInv'
    OBVIOUS
<1> USE DEF IndInv, vars, txVars, pause, flash, runtime, core1, history
<1>1. Types'
  BY DEF Types
<1>2. Handshake'
  BY HandshakeFrame
<1>3. Transaction'
  BY TransactionFrame
<1>4. Old'
  BY OldFrame, ZenonT(30)
<1>5. Memory'
  BY DEF Memory, Holds, InSketch
<1> QED BY <1>1, <1>2, <1>3, <1>4, <1>5

\* The handshake, the record, the old generation and the memory of the published
\* one are as described in every state both cores can reach.
THEOREM Invariance == Spec => []IndInv
<1>1. IndInv /\ [Next]_vars => IndInv'
  <2> SUFFICES ASSUME IndInv, [Next]_vars PROVE IndInv'
      OBVIOUS
  <2>1. CASE Next
    BY <2>1, TypesStep, HandshakeStep, TransactionStep, OldStep, MemoryStep DEF IndInv
  <2>2. CASE UNCHANGED vars
    BY <2>2, StutterKeeps
  <2> QED BY <2>1, <2>2
<1> QED BY <1>1, InitEstablishes, PTL DEF Spec

\* From the moment Replacement::poll has seen parked() until release(), core 1
\* stays in park_if_requested's spin loop: no flash command meets running code.
THEOREM FlashIsQuiescent == Spec => []FlashQuiescent
<1>1. IndInv => FlashQuiescent
  BY DEF IndInv, Handshake, Flashing, FlashQuiescent
<1> QED BY <1>1, Invariance, PTL

\* Core 1 executes only whole sketches, each on RAM Generation::begin prepared
\* for it, and calls setup exactly once before loop.
THEOREM SketchOwnsItsState == Spec => []RunsOnOwnState
<1>1. IndInv => RunsOnOwnState
  BY DEF IndInv, Memory, InSketch, RunsOnOwnState
<1> QED BY <1>1, Invariance, PTL

\* What Upload reports installed or boot_confirmed is in the slot and published,
\* and a confirmed loop has returned.
THEOREM ReportedInstallRuns == Spec => []InstalledRuns
<1>1. IndInv => InstalledRuns
  BY DEF IndInv, Old
<1> QED BY <1>1, Invariance, PTL

\* Every way of giving up before Runtime::stop_quiescent keeps slot and running
\* generation; after it nothing is resumed.
THEOREM GivingUpKeepsOld == Spec => []GiveUpKeepsOld
<1>1. IndInv => GiveUpKeepsOld
  BY DEF IndInv, Old
<1> QED BY <1>1, Invariance, PTL

----------------------------------------------------------------------------
\* next_id_ is beyond every id handed out, so begin's id is a new one.
IdsUsed == last.id \in 0..ids

\* Every step keeps what IdsUsed says of the identifiers given out.
LEMMA IdsUsedStep ==
  ASSUME IndInv, IdsUsed, [Next]_vars
  PROVE  IdsUsed'
<1> USE DEF IndInv, txVars, pause, flash, runtime, core1, history
<1>0. ids \in Nat /\ last \in LastType
  BY DEF Types
<1>1. ASSUME NEW o \in Owners, NEW c \in Capsules, Begin(o, c) PROVE IdsUsed'
  <2>1. ids' \in Nat /\ last'.id = ids'
    BY <1>1, BeginEffect
  <2> QED BY <2>1 DEF IdsUsed
<1>2. ASSUME last'.id = last.id, ids' = ids PROVE IdsUsed'
  BY <1>2, SMTT(30) DEF IdsUsed
<1>3. CASE \/ \E o \in Owners :
                \/ \E c \in Capsules, n \in 1..MaxChunk : Chunk(o, c, n)
                \/ Finish(o) \/ Commit(o) \/ Abandon(o)
           \/ PollExpired
  BY <1>2, <1>3, StagedEffect DEF Staged, Moved, Ended, Kept
<1>4. CASE Core0 /\ ~PollExpired
  <2>1. ids' = ids
    BY <1>4, Zenon DEF Core0, PollConfirm, Request, PollCommit, RequestStore, PollWaiting, CheckParked,
       FlashBegin, FlashErase, FlashProgram, Install, ReadBack, Publish, Boot
  <2>2. ASSUME NEW error, NEW touched, Failed(error, touched) PROVE last'.id = last.id
    BY <1>0, <2>2 DEF Failed, LastType
  <2>3. ASSUME NEW error, NEW touched, GaveUp(error, touched) PROVE last'.id = last.id
    BY <2>2, <2>3 DEF GaveUp
  <2>4. ASSUME NEW next, Going(next) PROVE last'.id = last.id
    BY <2>4 DEF Going
  <2>5. CASE PollConfirm
    BY <1>0, <1>2, <2>1, <2>5 DEF PollConfirm, LastType
  <2>6. CASE PollCommit
    BY <1>2, <2>1, <2>2, <2>6, Zenon DEF PollCommit
  <2>7. CASE RequestStore \/ Boot
    BY <1>2, <2>1, <2>7 DEF RequestStore, Boot
  <2>8. CASE PollWaiting
    BY <1>2, <2>1, <2>3, <2>8, Zenon DEF PollWaiting
  <2>9. CASE CheckParked
    <3>1. [last EXCEPT !.touched = FALSE].id = last.id
      BY <1>0 DEF LastType
    <3> QED BY <1>2, <2>1, <2>3, <2>9, <3>1, Zenon DEF CheckParked
  <2>10. CASE FlashBegin \/ FlashErase \/ FlashProgram \/ ReadBack
    BY <1>2, <2>1, <2>3, <2>4, <2>10, Zenon DEF FlashBegin, FlashErase, FlashProgram, ReadBack
  <2>11. CASE Publish
    BY <1>0, <1>2, <2>1, <2>11, Zenon DEF Publish, LastType
  <2> QED BY <1>4, <2>5, <2>6, <2>7, <2>8, <2>9, <2>10, <2>11, Zenon DEF Core0
<1>5. CASE Core1 \/ Sketch
  BY <1>2, <1>5, Zenon DEF Core1, Sketch, Park, ParkStore, TickLoad, StoreReturned, SetupReturns,
     LoopReturns, Core1Only
<1>6. CASE ToggleArm \/ Tick \/ UNCHANGED vars
  BY <1>2, <1>6, SMTT(30) DEF ToggleArm, Tick, vars
<1>7. CASE PowerCycle
  BY <1>7 DEF PowerCycle, NoUpload, IdsUsed
<1> QED BY <1>1, <1>3, <1>4, <1>5, <1>6, <1>7, Zenon DEF Next, Requests

\* The edges of StatusForward.
Edges == {"accepted"} \X {"verified", "aborted", "failed"}
           \cup {"verified"} \X {"committing", "aborted", "failed"}
           \cup {"committing"} \X {"installed", "failed"}
           \cup {<<"installed", "boot_confirmed">>}

\* A step that keeps the transaction and the power moves its state along an edge.
LEMMA ForwardStep ==
  ASSUME IndInv, IdsUsed, Next, last'.id = last.id, last'.state # last.state, pc0' # "boot"
  PROVE  <<last.state, last'.state>> \in Edges
<1> USE DEF IndInv, txVars, pause, flash, runtime, core1, history
<1>0. ids \in Nat /\ last \in LastType
  BY DEF Types
<1>1. ASSUME NEW o \in Owners, NEW c \in Capsules, Begin(o, c) PROVE FALSE
  <2>1. last'.id = ids + 1
    BY <1>1, BeginEffect
  <2> QED BY <1>0, <2>1 DEF IdsUsed
<1>2. ASSUME NEW error, NEW touched, Failed(error, touched) PROVE last'.state = "failed"
  BY <1>0, <1>2, ZenonT(30) DEF Failed, LastType
<1>3. ASSUME NEW error, NEW touched, GaveUp(error, touched) PROVE last'.state = "failed"
  BY <1>2, <1>3 DEF GaveUp
<1>4. ASSUME NEW o \in Owners, NEW c \in Capsules, NEW n \in 1..MaxChunk, Chunk(o, c, n)
      PROVE  FALSE
  BY <1>0, <1>4, ZenonT(30) DEF Chunk, LastType
<1>5. ASSUME NEW o \in Owners, Finish(o) PROVE <<last.state, last'.state>> \in Edges
  <2>1. last.state = "accepted"
    BY <1>5 DEF Finish, Checked
  <2>2. last' = [last EXCEPT !.state = "verified"] \/ last'.state = "failed"
    BY <1>2, <1>5, Zenon DEF Finish
  <2>3. last'.state \in {"verified", "failed"}
    BY <1>0, <2>2 DEF LastType
  <2> QED BY <2>1, <2>3 DEF Edges
<1>6. ASSUME NEW o \in Owners, Commit(o) PROVE <<last.state, last'.state>> \in Edges
  <2>1. last.state = "verified" /\ last'.state = "committing"
    BY <1>0, <1>6 DEF Commit, Checked, LastType
  <2> QED BY <2>1 DEF Edges
<1>7. ASSUME NEW o \in Owners, Abandon(o) PROVE <<last.state, last'.state>> \in Edges
  <2>1. last.state \in {"accepted", "verified"}
    BY <1>7 DEF Abandon, Uncommitted, Checked
  <2>2. last'.state = "aborted"
    BY <1>0, <1>7 DEF Abandon, LastType
  <2> QED BY <2>1, <2>2 DEF Edges
<1>8. CASE PollConfirm
  <2>1. last.state = "installed" /\ last'.state = "boot_confirmed"
    BY <1>0, <1>8 DEF PollConfirm, LastType
  <2> QED BY <2>1 DEF Edges
<1>9. ASSUME last.state \in {"accepted", "verified", "committing"}, last'.state = "failed"
      PROVE  <<last.state, last'.state>> \in Edges
  BY <1>9 DEF Edges
<1>10. CASE PollExpired
  BY <1>2, <1>9, <1>10 DEF PollExpired, Expired, BlocksConsole
<1>11. CASE PollCommit
  BY <1>2, <1>9, <1>11, Zenon DEF PollCommit
<1>12. CASE PollWaiting
  BY <1>3, <1>9, <1>12, Zenon DEF PollWaiting
<1>13. CASE CheckParked
  <2>1. last.state = "committing" /\ [last EXCEPT !.touched = FALSE].state = last.state
    BY <1>0, <1>13 DEF CheckParked, Transaction, LastType
  <2> QED BY <1>3, <1>9, <1>13, <2>1, Zenon DEF CheckParked
<1>14. CASE FlashBegin \/ FlashErase \/ FlashProgram \/ ReadBack
  <2>1. last.state = "committing"
    BY <1>14, Zenon DEF FlashBegin, FlashErase, FlashProgram, ReadBack, Transaction
  <2>2. last'.state = "failed"
    BY <1>3, <1>14, Zenon DEF FlashBegin, FlashErase, FlashProgram, ReadBack, Going
  <2> QED BY <1>9, <2>1, <2>2
<1>15. CASE Publish
  <2>1. Active /\ last.state = "committing" /\ last'.state = "installed"
    BY <1>0, <1>15, Zenon DEF Publish, Transaction, LastType
  <2> QED BY <2>1 DEF Edges
<1>16. CASE RequestStore \/ Boot \/ Core1 \/ Sketch \/ ToggleArm \/ Tick
  BY <1>16, SMTT(30) DEF RequestStore, Boot, Core1, Sketch, Park, ParkStore, TickLoad, StoreReturned,
     SetupReturns, LoopReturns, Core1Only, ToggleArm, Tick
<1>17. CASE PowerCycle
  BY <1>17 DEF PowerCycle
<1> QED BY <1>1, <1>4, <1>5, <1>6, <1>7, <1>8, <1>10, <1>11, <1>12, <1>13, <1>14, <1>15,
           <1>16, <1>17, Zenon DEF Next, Requests, Core0

\* A transaction of Upload only moves forward, whatever requests, polls, timeouts
\* and flash failures do: no commit is aborted or replayed.
THEOREM MovesForward == Spec => StatusForward
<1>1. Init => IdsUsed
  BY DEF Init, NoUpload, IdsUsed
<1>2. IndInv /\ IdsUsed /\ [Next]_vars => IdsUsed'
  BY IdsUsedStep
<1>3. IndInv /\ IdsUsed /\ [Next]_vars
        => [last'.id = last.id /\ last'.state # last.state /\ pc0' # "boot" =>
              <<last.state, last'.state>> \in Edges]_vars
  BY ForwardStep
<1> QED BY <1>1, <1>2, <1>3, Invariance, PTL DEF Spec, StatusForward, Edges

----------------------------------------------------------------------------
(* The retained record: StatefulUpload implements UploadRecord *)

\* While Replacement::install programs, the slot's first page is the snapshot's,
\* or no capsule's.
Header == pc0 = "program" => slot[1] \in {last.capsule, Bad, Erased}

\* A slot holds at most one capsule: its header page names it.
LEMMA HoldsOne ==
  ASSUME NEW s, NEW c \in Valid, NEW d \in Valid, Holds(s, c), Holds(s, d)
  PROVE  c = d
<1>1. 1 \in 1..Size[c] /\ 1 \in 1..Size[d]
  BY StatefulAssumption
<1> QED BY <1>1 DEF Holds

\* What SlotOf is when the slot holds a capsule, and when it holds none.
LEMMA SlotIs ==
  /\ \A c \in Valid : Holds(slot, c) => SlotOf = c
  /\ (\A c \in Valid : ~Holds(slot, c)) => SlotOf = None
  /\ SlotOf \in Valid \cup {None}
<1>1. ASSUME NEW c \in Valid, Holds(slot, c) PROVE SlotOf = c
  <2>1. SlotOf = CHOOSE d \in Valid : Holds(slot, d)
    BY <1>1 DEF SlotOf
  <2>2. SlotOf \in Valid /\ Holds(slot, SlotOf)
    BY <1>1, <2>1
  <2> QED BY <1>1, <2>2, HoldsOne
<1>2. ASSUME \A c \in Valid : ~Holds(slot, c) PROVE SlotOf = None
  BY <1>2 DEF SlotOf
<1> QED BY <1>1, <1>2

\* The slot after a step holds what SlotOf says, if anything.
LEMMA SlotAfter == SlotOf' = None \/ (SlotOf' \in Valid /\ Holds(slot', SlotOf'))
<1>1. CASE \E c \in Valid : Holds(slot', c)
  BY <1>1 DEF SlotOf
<1>2. CASE \A c \in Valid : ~Holds(slot', c)
  BY <1>2 DEF SlotOf
<1> QED BY <1>1, <1>2

\* The abstract slot does not move when the flash does not.
LEMMA SlotKept == ASSUME UNCHANGED slot PROVE SlotOf' = SlotOf
  BY DEF SlotOf, Holds

\* An erased slot holds no capsule, even one whose last page did not erase.
LEMMA ErasedIsNone ==
  ASSUME slot' \in {Blank, [Blank EXCEPT ![SlotPages] = Bad]}
  PROVE  SlotOf' = None
<1>1. ASSUME NEW c \in Valid, Holds(slot', c) PROVE FALSE
  <2>1. c \in Capsules /\ 1 \in 1..Size[c] /\ 1 \in Pages
    BY StatefulAssumption DEF Pages
  <2>2. slot'[1] \in {Erased, Bad}
    BY <2>1, Zenon DEF Blank, Pages
  <2> QED BY <1>1, <2>1, <2>2, StatefulAssumption DEF Holds
<1> QED BY <1>1, SlotAfter

\* A page that did not program right takes the capsule away or leaves the slot.
LEMMA BadIsNone ==
  ASSUME slot \in Contents, NEW p \in Pages, slot' = [slot EXCEPT ![p] = Bad]
  PROVE  SlotOf' \in {SlotOf, None}
<1>1. ASSUME NEW c \in Valid, Holds(slot', c) PROVE Holds(slot, c)
  BY <1>1, StatefulAssumption DEF Holds, Contents, Pages
<1> QED BY <1>1, SlotAfter, SlotIs

\* Programming the transaction's own pages can only bring its own capsule.
LEMMA PageIsOwn ==
  ASSUME slot \in Contents, NEW p \in Pages, NEW k \in Capsules, NEW v \in {k, Bad},
         slot[1] \in {k, Bad, Erased}, slot' = [slot EXCEPT ![p] = v]
  PROVE  SlotOf' \in {k, None} /\ slot'[1] \in {k, Bad, Erased}
<1>1. slot'[1] \in {k, Bad, Erased}
  BY DEF Contents, Pages
<1>2. ASSUME NEW c \in Valid, Holds(slot', c) PROVE c = k
  <2>1. slot'[1] = c
    BY <1>2, StatefulAssumption DEF Holds
  <2> QED BY <1>1, <2>1, StatefulAssumption
<1> QED BY <1>1, <1>2, SlotAfter

\* The page Replacement::install programs next is one of the announced capsule.
LEMMA NextPage ==
  ASSUME Types, Transaction, pc0 = "program"
  PROVE  page \in Pages /\ snapshot[page] = last.capsule /\ last.capsule \in Capsules
<1>1. Active /\ Whole(snapshot, last.capsule) /\ page \in 1..Len(snapshot)
  BY DEF Transaction
<1>2. Len(snapshot) = Size[last.capsule] /\ last.capsule \in Capsules
  BY <1>1, StatefulAssumption DEF Whole
<1> QED BY <1>1, <1>2, StatefulAssumption DEF Whole, Pages

\* Header is kept by every step.
LEMMA HeaderStep ==
  ASSUME Types, Transaction, Header, Next
  PROVE  Header'
<1> USE DEF txVars, pause, flash, runtime, core1, history
<1>1. ASSUME pc0' # "program" PROVE Header'
  BY <1>1 DEF Header
<1>2. CASE FlashErase
  <2>1. ASSUME slot' \in {Blank, [Blank EXCEPT ![SlotPages] = Bad]}, Going("program")
        PROVE  Header'
    <3>1. last.capsule \in Capsules
      BY <1>2 DEF FlashErase, Transaction
    <3>2. 1 \in Pages
      BY <3>1, StatefulAssumption DEF Pages
    <3>3. slot'[1] \in {Erased, Bad}
      BY <2>1, <3>2, Zenon DEF Blank, Pages
    <3> QED BY <3>3 DEF Header
  <2> QED BY <1>1, <1>2, <2>1, Zenon DEF FlashErase, GaveUp, Released
<1>3. CASE FlashProgram
  <2>0. pc0 = "program" /\ slot \in Contents
    BY <1>3 DEF FlashProgram, Types
  <2>1. ASSUME NEW p \in {snapshot[page], Bad}, slot' = [slot EXCEPT ![page] = p],
               UNCHANGED last
        PROVE  Header'
    <3>1. slot'[1] \in {last.capsule, Bad, Erased}
      BY <2>0, <2>1, NextPage, PageIsOwn DEF Header
    <3> QED BY <2>1, <3>1, SMTT(30) DEF Header
  <2>2. CASE GaveUp("install_failed", TRUE)
    BY <1>1, <2>2 DEF GaveUp, Released
  <2> QED BY <1>3, <2>1, <2>2, Zenon DEF FlashProgram, Going
<1>4. CASE \/ \E o \in Owners :
                \/ \E c \in Capsules : Begin(o, c)
                \/ \E c \in Capsules, n \in 1..MaxChunk : Chunk(o, c, n)
                \/ Finish(o) \/ Commit(o) \/ Abandon(o)
           \/ PollConfirm \/ PollExpired
  <2>1. pc0' = "loop"
    BY <1>4, Zenon DEF Begin, Chunk, Finish, Commit, Abandon, PollConfirm, PollExpired, Request
  <2> QED BY <1>1, <2>1
<1>5. CASE PollCommit \/ RequestStore \/ PollWaiting \/ CheckParked \/ FlashBegin \/ ReadBack
  <2>1. pc0' # "program"
    BY <1>5, Zenon DEF PollCommit, RequestStore, PollWaiting, CheckParked, FlashBegin, ReadBack,
       GaveUp, Released, Going
  <2> QED BY <1>1, <2>1
<1>6. CASE Publish \/ Boot \/ PowerCycle
  <2>1. pc0' # "program"
    BY <1>6, Zenon DEF Publish, Released, Boot, PowerCycle
  <2> QED BY <1>1, <2>1
<1>7. CASE Core1 \/ Sketch \/ ToggleArm \/ Tick
  <2>1. UNCHANGED <<last, slot, pc0>>
    BY <1>7, SMTT(30) DEF Core1, Sketch, Park, ParkStore, TickLoad, StoreReturned, SetupReturns,
       LoopReturns, Core1Only, ToggleArm, Tick
  <2> QED BY <2>1 DEF Header
<1> QED BY <1>2, <1>3, <1>4, <1>5, <1>6, <1>7, Zenon DEF Next, Requests, Core0

\* The record of a live transaction, field by field.
LEMMA RecordIs ==
  ASSUME last.id # 0
  PROVE  RecordOf = [id |-> last.id, owner |-> owner, capsule |-> last.capsule,
                     state |-> last.state, received |-> last.received,
                     touched |-> last.touched]
  BY DEF RecordOf

\* A step that keeps the transaction's identity changes the record's other fields.
LEMMA RecordMoves ==
  ASSUME last.id # 0, last'.id = last.id, owner' = owner, last'.capsule = last.capsule
  PROVE  /\ last'.touched = last.touched /\ last'.received = last.received
              => RecordOf' = [RecordOf EXCEPT !.state = last'.state]
         /\ last'.touched = last.touched /\ last'.state = last.state
              => RecordOf' = [RecordOf EXCEPT !.received = last'.received]
         /\ last'.received = last.received
              => RecordOf' = [RecordOf EXCEPT !.state = last'.state, !.touched = last'.touched]
<1>1. RecordOf' = [id |-> last.id, owner |-> owner, capsule |-> last.capsule,
                   state |-> last'.state, received |-> last'.received,
                   touched |-> last'.touched]
  BY SMTT(30) DEF RecordOf
<1>2. RecordOf = [id |-> last.id, owner |-> owner, capsule |-> last.capsule,
                  state |-> last.state, received |-> last.received,
                  touched |-> last.touched]
  BY RecordIs
<1>3. ASSUME last'.touched = last.touched, last'.received = last.received
      PROVE RecordOf' = [RecordOf EXCEPT !.state = last'.state]
  BY <1>1, <1>2, <1>3
<1>4. ASSUME last'.touched = last.touched, last'.state = last.state
      PROVE RecordOf' = [RecordOf EXCEPT !.received = last'.received]
  BY <1>1, <1>2, <1>4
<1>5. ASSUME last'.received = last.received
      PROVE RecordOf' = [RecordOf EXCEPT !.state = last'.state, !.touched = last'.touched]
  <2>1. PICK s, u : s = last'.state /\ u = last'.touched
    OBVIOUS
  <2>2. PICK r : r = [RecordOf EXCEPT !.state = s, !.touched = u]
    OBVIOUS
  <2>3. r = [id |-> last.id, owner |-> owner, capsule |-> last.capsule,
             state |-> s, received |-> last.received, touched |-> u]
    BY <1>2, <2>2, ZenonT(30)
  <2>4. r = RecordOf'
    BY <1>1, <1>5, <2>1, <2>3
  <2> QED BY <2>1, <2>2, <2>4
<1> QED BY <1>3, <1>4, <1>5, Zenon

\* A step that leaves the transaction and the flash alone is no step of the record.
LEMMA RecordRests ==
  ASSUME UNCHANGED <<last, owner, ids, slot>>
  PROVE  UNCHANGED Promise!recordVars
<1>1. RecordOf' = RecordOf
  BY DEF RecordOf
<1> QED BY <1>1, SlotKept, SMTT(30) DEF Promise!recordVars

\* Upload::fail is the record giving up, or spoiling the slot it has touched.
LEMMA FailRefines ==
  ASSUME Types, Transaction, BlocksConsole, NEW error, NEW touched \in BOOLEAN,
         Failed(error, touched), UNCHANGED <<owner, ids>>,
         touched => last.state = "committing" /\ SlotOf' \in {SlotOf, None},
         ~touched => SlotOf' = SlotOf
  PROVE  Promise!Poll
<1>t. last \in LastType /\ last.id # 0 /\ last.state \in {"accepted", "verified", "committing"}
  BY DEF Types, BlocksConsole
<1>1. last' = [last EXCEPT !.state = "failed", !.error = error, !.touched = touched, !.gen = 0]
  BY DEF Failed
<1>2. /\ last'.id = last.id /\ last'.capsule = last.capsule /\ last'.received = last.received
      /\ last'.state = "failed" /\ last'.touched = touched
  BY <1>t, <1>1 DEF LastType
<1>3. RecordOf.id = last.id /\ RecordOf.state = last.state
  BY <1>t, RecordIs
<1>4. CASE ~touched
  <2>1. last'.touched = last.touched
    <3>1. ~last.touched /\ last.touched \in BOOLEAN
      BY <1>t DEF LastType, Transaction
    <3> QED BY <1>2, <1>4, <3>1, Zenon
  <2>2. RecordOf' = [RecordOf EXCEPT !.state = "failed"]
    BY <1>t, <1>2, <2>1, RecordMoves
  <2>3. Promise!GiveUp
    BY <1>t, <1>3, <1>4, <2>2 DEF Promise!GiveUp, Promise!Busy
  <2> QED BY <2>3 DEF Promise!Poll
<1>5. CASE touched
  <2>1. RecordOf' = [RecordOf EXCEPT !.state = last'.state, !.touched = last'.touched]
    BY <1>t, <1>2, RecordMoves
  <2>2. last'.touched = TRUE
    BY <1>2, <1>5, Zenon
  <2>3. Promise!Spoil
    BY <1>t, <1>2, <1>3, <1>5, <2>1, <2>2, Zenon DEF Promise!Spoil, Promise!Busy
  <2> QED BY <2>3 DEF Promise!Poll
<1> QED BY <1>4, <1>5

\* A session's request is that request of the record.  (A failed finish is the
\* record's finish, not its giving up.)
LEMMA RequestRefines ==
  ASSUME Types, Transaction, NEW o \in Owners,
         \/ \E c \in Capsules : Begin(o, c)
         \/ \E c \in Capsules, n \in 1..MaxChunk : Chunk(o, c, n)
         \/ Finish(o) \/ Commit(o) \/ Abandon(o)
  PROVE  Promise!Request(o)
<1> USE StatefulAssumption
<1>t. last \in LastType /\ ids \in Nat
  BY DEF Types
<1>s. SlotOf' = SlotOf
  BY SlotKept, Zenon DEF Begin, Chunk, Finish, Commit, Abandon, Request, flash
<1>1. ASSUME NEW c \in Capsules, Begin(o, c) PROVE Promise!Begin(o, c)
  <2>1. /\ ids' = ids + 1 /\ owner' = o /\ ids < MaxId
        /\ last' = [NoUpload EXCEPT !.id = ids + 1, !.capsule = c, !.state = "accepted"]
    BY <1>1, Zenon DEF Begin
  <2>2. ~Promise!Busy
    BY <1>1, Zenon DEF Begin, BlocksConsole, Promise!Busy, RecordOf
  <2>3. /\ last'.id = ids + 1 /\ last'.capsule = c /\ last'.state = "accepted"
        /\ last'.received = 0 /\ last'.touched = FALSE
    BY <2>1 DEF NoUpload
  <2>4. RecordOf' = [id |-> ids + 1, owner |-> o, capsule |-> c, state |-> "accepted",
                     received |-> 0, touched |-> FALSE]
    <3>1. last'.id # 0
      BY <1>t, <2>3
    <3> QED BY <2>1, <2>3, <3>1, Zenon DEF RecordOf
  <2> QED BY <1>s, <2>1, <2>2, <2>4 DEF Promise!Begin
<1>2. ASSUME NEW c \in Capsules, NEW n \in 1..MaxChunk, Chunk(o, c, n)
      PROVE Promise!Request(o)
  <2>1. /\ last.id # 0 /\ o = owner /\ last.state = "accepted"
        /\ n <= Size[last.capsule] - last.received
        /\ last' = [last EXCEPT !.received = @ + n] /\ UNCHANGED <<owner, ids>>
    BY <1>2 DEF Chunk, Checked, Request
  <2>2. /\ last'.id = last.id /\ last'.capsule = last.capsule /\ last'.state = last.state
        /\ last'.touched = last.touched /\ last'.received = last.received + n
    BY <1>t, <2>1 DEF LastType
  <2>3. /\ RecordOf' = [RecordOf EXCEPT !.received = last'.received]
        /\ RecordOf.received = last.received /\ RecordOf.id = last.id
        /\ RecordOf.owner = o /\ RecordOf.state = "accepted"
        /\ RecordOf.capsule = last.capsule
    BY <2>1, <2>2, RecordMoves, RecordIs
  <2>4. last.capsule \in Capsules /\ last.received \in Nat
    BY <1>t, <2>1 DEF Transaction, LastType
  <2>5. n \in 1..Size[last.capsule]
    BY <2>1, <2>4
  <2>6. Promise!Chunk(o, n)
    BY <1>s, <2>1, <2>2, <2>3 DEF Promise!Chunk, Promise!Held
  <2> QED BY <2>1, <2>3, <2>5, <2>6 DEF Promise!Request
<1>3. CASE Finish(o)
  <2>1. /\ last.id # 0 /\ o = owner /\ last.state = "accepted" /\ UNCHANGED <<owner, ids>>
        /\ last.received = Size[last.capsule]
    BY <1>3 DEF Finish, Checked, Request
  <2>a. ASSUME NEW error, Failed(error, last.touched)
        PROVE  /\ last'.id = last.id /\ last'.capsule = last.capsule
               /\ last'.received = last.received /\ last'.touched = last.touched
               /\ last'.state = "failed"
    BY <1>t, <2>a DEF Failed, LastType
  <2>b. ASSUME Whole(stage, last.capsule), last' = [last EXCEPT !.state = "verified"]
        PROVE  /\ last'.id = last.id /\ last'.capsule = last.capsule
               /\ last'.received = last.received /\ last'.touched = last.touched
               /\ last'.state = "verified" /\ last.capsule \in Valid
    BY <1>t, <2>b DEF Whole, LastType
  <2>2. /\ last'.id = last.id /\ last'.capsule = last.capsule /\ last'.received = last.received
        /\ last'.touched = last.touched
        /\ \/ last'.state = "verified" /\ last.capsule \in Valid
           \/ last'.state = "failed"
    BY <1>3, <2>a, <2>b, Zenon DEF Finish
  <2>3. /\ RecordOf' = [RecordOf EXCEPT !.state = last'.state]
        /\ RecordOf.received = last.received /\ RecordOf.id = last.id
        /\ RecordOf.owner = o /\ RecordOf.state = "accepted"
        /\ RecordOf.capsule = last.capsule
    BY <2>1, <2>2, RecordMoves, RecordIs
  <2>4. Promise!Finish(o)
    BY <1>s, <2>1, <2>2, <2>3, SMTT(30) DEF Promise!Finish, Promise!Held
  <2> QED BY <2>4 DEF Promise!Request
<1>4. CASE Commit(o)
  <2>1. /\ last.id # 0 /\ o = owner /\ last.state = "verified" /\ UNCHANGED <<owner, ids>>
        /\ last' = [last EXCEPT !.state = "committing"]
    BY <1>4 DEF Commit, Checked, Request
  <2>2. /\ last'.id = last.id /\ last'.capsule = last.capsule /\ last'.state = "committing"
        /\ last'.received = last.received /\ last'.touched = last.touched
    BY <1>t, <2>1 DEF LastType
  <2>3. Promise!Commit(o)
    BY <1>s, <2>1, <2>2, RecordMoves, RecordIs DEF Promise!Commit, Promise!Held
  <2> QED BY <2>3 DEF Promise!Request
<1>5. CASE Abandon(o)
  <2>1. /\ last.id # 0 /\ o = owner /\ last.state \in {"accepted", "verified"}
        /\ UNCHANGED <<owner, ids>>
    BY <1>5 DEF Abandon, Uncommitted, Checked, Request
  <2>2. PICK error : last' = [last EXCEPT !.state = "aborted", !.error = error]
    BY <1>5, Zenon DEF Abandon
  <2>3. /\ last'.id = last.id /\ last'.capsule = last.capsule /\ last'.state = "aborted"
        /\ last'.received = last.received /\ last'.touched = last.touched
    BY <1>t, <2>2 DEF LastType
  <2>4. Promise!Abandon(o)
    BY <1>s, <2>1, <2>3, RecordMoves, RecordIs DEF Promise!Abandon, Promise!Held
  <2> QED BY <2>4 DEF Promise!Request
<1> QED BY <1>1, <1>2, <1>3, <1>4, <1>5, ZenonT(30) DEF Promise!Request

\* Every step of Upload::poll and of setup(), flash commands included, is a step of
\* the record or leaves it alone.
LEMMA PollRefines ==
  ASSUME IndInv, Header, Core0
  PROVE  Promise!Poll \/ UNCHANGED Promise!recordVars
<1> USE DEF txVars, pause, flash, runtime, core1, history
<1>t. /\ Types /\ Transaction /\ last \in LastType /\ slot \in Contents
      /\ last.touched \in BOOLEAN
  BY DEF IndInv, Types, LastType
<1>i. UNCHANGED <<owner, ids>>
  BY Zenon DEF Core0, PollConfirm, PollExpired, Request, PollCommit, RequestStore, PollWaiting,
     CheckParked, FlashBegin, FlashErase, FlashProgram, Install, ReadBack, Publish, Boot
<1>a. ASSUME UNCHANGED <<last, slot>> PROVE UNCHANGED Promise!recordVars
  BY <1>i, <1>a, RecordRests
<1>b. ASSUME NEW error, BlocksConsole, Failed(error, last.touched), UNCHANGED slot
      PROVE  Promise!Poll
  <2>1. ~last.touched
    BY <1>b, <1>t DEF Transaction
  <2> QED BY <1>b, <1>i, <1>t, <2>1, FailRefines, SlotKept
<1>c. ASSUME NEW error, Active, GaveUp(error, FALSE), UNCHANGED slot
      PROVE  Promise!Poll
  <2>1. BlocksConsole /\ Failed(error, FALSE)
    BY <1>c, <1>t, Zenon DEF Transaction, BlocksConsole, GaveUp
  <2> QED BY <1>c, <1>i, <1>t, <2>1, FailRefines, SlotKept, Zenon
<1>d. ASSUME NEW error, Active, GaveUp(error, TRUE), SlotOf' \in {SlotOf, None}
      PROVE  Promise!Poll
  <2>1. BlocksConsole /\ Failed(error, TRUE) /\ last.state = "committing"
    BY <1>d, <1>t, Zenon DEF Transaction, BlocksConsole, GaveUp
  <2> QED BY <1>d, <1>i, <1>t, <2>1, FailRefines, Zenon
\* While core 0 is in the flash the record says committing; only the slot moves.
<1>e. ASSUME Active, UNCHANGED last, SlotOf' \in {None, last.capsule}
      PROVE  Promise!Poll
  <2>1. RecordOf' = RecordOf /\ last.id # 0 /\ last.state = "committing"
    BY <1>e, <1>i, <1>t DEF RecordOf, Transaction
  <2>2. RecordOf.id = last.id /\ RecordOf.state = "committing" /\ RecordOf.capsule = last.capsule
    BY <2>1, RecordIs, SMTT(30)
  <2>3. Promise!Write
    BY <1>e, <1>i, <2>1, <2>2 DEF Promise!Write, Promise!Busy
  <2> QED BY <2>3, SMTT(30) DEF Promise!Poll
<1>1. CASE PollConfirm
  <2>1. /\ last.id # 0 /\ last.state = "installed" /\ UNCHANGED slot
        /\ last' = [last EXCEPT !.state = "boot_confirmed"]
    BY <1>1 DEF PollConfirm, Request
  <2>2. /\ last'.id = last.id /\ last'.capsule = last.capsule /\ last'.state = "boot_confirmed"
        /\ last'.received = last.received /\ last'.touched = last.touched
    BY <1>t, <2>1 DEF LastType
  <2>3. Promise!Confirm
    BY <1>i, <2>1, <2>2, RecordMoves, RecordIs, SlotKept DEF Promise!Confirm
  <2> QED BY <2>3 DEF Promise!Poll
<1>2. CASE PollExpired
  BY <1>2, <1>b DEF PollExpired, Expired, Request
<1>3. CASE PollCommit
  <2>1. BlocksConsole /\ UNCHANGED slot
    BY <1>3 DEF PollCommit, BlocksConsole
  <2> QED BY <1>3, <1>a, <1>b, <2>1, Zenon DEF PollCommit
<1>4. CASE RequestStore \/ Boot
  BY <1>4, <1>a DEF RequestStore, Boot
<1>5. CASE PollWaiting
  <2>1. UNCHANGED slot
    BY <1>5 DEF PollWaiting
  <2> QED BY <1>5, <1>a, <1>c, <2>1, Zenon DEF PollWaiting
<1>6. CASE CheckParked
  <2>1. UNCHANGED slot /\ Active /\ BlocksConsole
    BY <1>6, <1>t DEF CheckParked, Transaction, BlocksConsole
  <2>2. ASSUME last' = [last EXCEPT !.touched = FALSE] PROVE UNCHANGED Promise!recordVars
    <3>1. last.touched = FALSE
      <4>1. ~last.touched
        BY <1>t, <2>1 DEF Transaction
      <4> QED BY <1>t, <4>1, Zenon
    <3>2. last' = last
      BY <1>t, <2>2, <3>1 DEF LastType
    <3> QED BY <1>a, <2>1, <3>2
  <2> QED BY <1>6, <1>a, <1>c, <2>1, <2>2, Zenon DEF CheckParked
<1>7. CASE FlashBegin
  <2>1. UNCHANGED slot /\ Active
    BY <1>7, <1>t DEF FlashBegin, Transaction
  <2> QED BY <1>7, <1>a, <1>c, <2>1, Zenon DEF FlashBegin, Going
<1>8. CASE FlashErase
  <2>1. Active
    BY <1>8, <1>t DEF FlashErase, Transaction
  <2>2. ASSUME slot' \in {Blank, [Blank EXCEPT ![SlotPages] = Bad]}, UNCHANGED last
        PROVE  Promise!Poll
    BY <1>e, <2>1, <2>2, ErasedIsNone
  <2>3. ASSUME slot' \in {slot, Blank}, GaveUp("install_failed", TRUE) PROVE Promise!Poll
    BY <1>d, <2>1, <2>3, ErasedIsNone, SlotKept, Zenon
  <2> QED BY <1>8, <2>2, <2>3, Zenon DEF FlashErase, Going
<1>9. CASE FlashProgram
  <2>1. Active /\ pc0 = "program"
    BY <1>9, <1>t DEF FlashProgram, Transaction
  <2>2. page \in Pages /\ snapshot[page] = last.capsule /\ last.capsule \in Capsules
    BY <1>t, <2>1, NextPage
  <2>3. ASSUME NEW p \in {snapshot[page], Bad}, slot' = [slot EXCEPT ![page] = p],
               UNCHANGED last
        PROVE  Promise!Poll
    <3>1. SlotOf' \in {last.capsule, None}
      BY <1>t, <2>1, <2>2, <2>3, PageIsOwn, Zenon DEF Header
    <3> QED BY <1>e, <2>1, <2>3, <3>1
  <2>4. ASSUME slot' \in {slot, [slot EXCEPT ![page] = Bad]}, GaveUp("install_failed", TRUE)
        PROVE  Promise!Poll
    <3>1. SlotOf' \in {SlotOf, None}
      BY <1>t, <2>2, <2>4, BadIsNone, SlotKept
    <3> QED BY <1>d, <2>1, <2>4, <3>1, Zenon
  <2> QED BY <1>9, <2>3, <2>4, Zenon DEF FlashProgram, Going
<1>10. CASE ReadBack
  <2>1. UNCHANGED slot /\ Active
    BY <1>10, <1>t DEF ReadBack, Transaction
  <2>2. SlotOf' = SlotOf
    BY <2>1, SlotKept
  <2> QED BY <1>10, <1>a, <1>d, <2>1, <2>2, Zenon DEF ReadBack, Going
<1>11. CASE Publish
  <2>1. UNCHANGED slot /\ pc0 = "publish"
    BY <1>11 DEF Publish
  <2>2. CASE ~Active
    BY <1>11, <1>a, <2>1, <2>2 DEF Publish
  <2>3. CASE Active
    <3>1. /\ last.id # 0 /\ last.state = "committing"
          /\ last' = [last EXCEPT !.state = "installed", !.touched = TRUE, !.gen = lastGen]
      BY <1>11, <1>t, <2>3 DEF Publish, Transaction
    <3>2. SlotOf = last.capsule
      <4>1. image = last.capsule /\ Holds(slot, image)
        BY <2>1, <2>3 DEF IndInv, Old, Memory
      <4>2. last.capsule \in Valid
        BY <4>1 DEF Holds
      <4> QED BY <4>1, <4>2, SlotIs, SMTT(30)
    <3>3. /\ last'.id = last.id /\ last'.capsule = last.capsule /\ last'.state = "installed"
          /\ last'.received = last.received /\ last'.touched = TRUE
      BY <1>t, <3>1 DEF LastType
    <3>4. /\ RecordOf' = [RecordOf EXCEPT !.state = last'.state, !.touched = last'.touched]
          /\ RecordOf.id = last.id /\ RecordOf.state = "committing"
          /\ RecordOf.capsule = last.capsule
      BY <1>i, <3>1, <3>3, RecordMoves, RecordIs
    <3>5. Promise!Install
      BY <1>i, <2>1, <3>1, <3>2, <3>3, <3>4, SlotKept DEF Promise!Install, Promise!Busy
    <3> QED BY <3>5 DEF Promise!Poll
  <2> QED BY <2>2, <2>3
<1> QED BY <1>1, <1>2, <1>3, <1>4, <1>5, <1>6, <1>7, <1>8, <1>9, <1>10, <1>11 DEF Core0

\* Upload with its replacement, its lease and the flash implements UploadRecord, the
\* record the FMS1 service implements too: what sessions and host tools rely on
\* holds of both builds.
THEOREM StatefulKeepsPromise == Spec => KeepsPromise
<1>1. Init => Promise!RecordInit
  <2> SUFFICES ASSUME Init PROVE Promise!RecordInit
    OBVIOUS
  <2>1. RecordOf = Promise!NoRecord
    BY Zenon DEF Init, NoUpload, RecordOf, Promise!NoRecord
  <2> QED BY <2>1, SlotIs, Zenon DEF Init, Promise!RecordInit
<1>2. Init => Header
  BY Zenon DEF Init, Header
<1>3. IndInv /\ Header /\ [Next]_vars => Header'
  <2> SUFFICES ASSUME IndInv, Header, [Next]_vars PROVE Header'
    OBVIOUS
  <2>1. CASE UNCHANGED vars
    BY <2>1, Zenon DEF vars, txVars, flash, Header
  <2> QED BY <2>1, HeaderStep, Zenon DEF IndInv
<1>4. IndInv /\ Header /\ [Next]_vars => [Promise!RecordNext]_(Promise!recordVars)
  <2> SUFFICES ASSUME IndInv, Header, [Next]_vars
               PROVE  Promise!RecordNext \/ UNCHANGED Promise!recordVars
    OBVIOUS
  <2>1. CASE Requests
    BY <2>1, RequestRefines DEF IndInv, Requests, Promise!RecordNext
  <2>2. CASE Core0
    BY <2>2, PollRefines DEF Promise!RecordNext
  <2>3. CASE Core1 \/ Sketch \/ ToggleArm \/ Tick \/ UNCHANGED vars
    BY <2>3, RecordRests DEF Core1, Sketch, ToggleArm, Tick, txVars, flash, Park, ParkStore,
       TickLoad, StoreReturned, SetupReturns, LoopReturns, Core1Only, vars
  <2>4. CASE PowerCycle
    <3>1. RecordOf' = Promise!NoRecord
      BY <2>4, Zenon DEF PowerCycle, NoUpload, RecordOf, Promise!NoRecord
    <3>2. Promise!Reset
      BY <2>4, <3>1, SlotKept DEF PowerCycle, Promise!Reset
    <3> QED BY <3>2, Zenon DEF Promise!RecordNext
  <2> QED BY <2>1, <2>2, <2>3, <2>4 DEF Next
<1> QED BY <1>1, <1>2, <1>3, <1>4, Invariance, PTL DEF Spec, KeepsPromise, Promise!RecordSpec
=============================================================================
