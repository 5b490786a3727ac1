---------------------------- MODULE UploadRecord ----------------------------
(***************************************************************************)
(* What an UploadService promises the sessions that share it: one retained *)
(* transaction record per boot and one flash slot.  The FMS1 service       *)
(* (ManagedUpload) and the FMS2 service (StatefulUpload) implement it, and *)
(* the host's upload tools (UploadLink and its users) are modelled against *)
(* it.                                                                     *)
(*                                                                         *)
(* The slot is the valid capsule it holds, or None.  A refused request     *)
(* changes nothing and is not a step.                                      *)
(***************************************************************************)
EXTENDS Naturals

CONSTANTS
  Owners,     \* session tokens
  None,       \* no owner, no capsule
  Capsules,   \* what a client may announce
  Valid,      \* the capsules the device's validator accepts
  Size,       \* capsule -> its length in stage units
  MaxId       \* transactions of one boot (2^32 - 1)

VARIABLES
  record,     \* last_ of the service, with the owner_ it belongs to
  ids,        \* transaction ids given out in this boot
  slot        \* the capsule the slot holds, or None

recordVars == <<record, ids, slot>>

States == {"accepted", "verified", "committing", "installed", "boot_confirmed",
           "aborted", "failed"}

NoRecord == [id |-> 0, owner |-> None, capsule |-> None, state |-> "aborted",
             received |-> 0, touched |-> FALSE]

Busy == record.id # 0 /\ record.state \in {"accepted", "verified", "committing"}

Begin(o, c) ==
  /\ ~Busy
  /\ ids < MaxId
  /\ ids' = ids + 1
  /\ record' = [id |-> ids + 1, owner |-> o, capsule |-> c, state |-> "accepted",
                received |-> 0, touched |-> FALSE]
  /\ UNCHANGED slot

Held(o, state) == record.id # 0 /\ record.owner = o /\ record.state = state

Chunk(o, n) ==
  /\ Held(o, "accepted")
  /\ n <= Size[record.capsule] - record.received
  /\ record' = [record EXCEPT !.received = @ + n]
  /\ UNCHANGED <<ids, slot>>

\* Mutant: the stage is not validated.
FinishUnvalidated(o) ==
  /\ Held(o, "accepted")
  /\ record.received = Size[record.capsule]
  /\ record' = [record EXCEPT !.state = "verified"]
  /\ UNCHANGED <<ids, slot>>

\* The digest and the validator decide; only a valid capsule can pass.
Finish(o) ==
  /\ Held(o, "accepted")
  /\ record.received = Size[record.capsule]
  /\ \E s \in {"verified", "failed"} :
       /\ s = "verified" => record.capsule \in Valid
       /\ record' = [record EXCEPT !.state = s]
  /\ UNCHANGED <<ids, slot>>

Commit(o) ==
  /\ Held(o, "verified")
  /\ record' = [record EXCEPT !.state = "committing"]
  /\ UNCHANGED <<ids, slot>>

\* flash.abort, and disconnect when the owner's session ends.
Abandon(o) ==
  /\ Held(o, "accepted") \/ Held(o, "verified")
  /\ record' = [record EXCEPT !.state = "aborted"]
  /\ UNCHANGED <<ids, slot>>

\* The service gives up before the slot is touched: not armed, core 1 did not
\* park, the lease ran out.
GiveUp ==
  /\ Busy
  /\ record' = [record EXCEPT !.state = "failed"]
  /\ UNCHANGED <<ids, slot>>

\* Erase and program, while the record says committing.
Write ==
  /\ Busy /\ record.state = "committing"
  /\ slot' \in {None, record.capsule}
  /\ UNCHANGED <<record, ids>>

\* The install went wrong after the slot was touched.
Spoil ==
  /\ Busy /\ record.state = "committing"
  /\ record' = [record EXCEPT !.state = "failed", !.touched = TRUE]
  /\ slot' \in {slot, None}
  /\ UNCHANGED ids

\* The slot was read back and holds the capsule.
Install ==
  /\ Busy /\ record.state = "committing" /\ slot = record.capsule
  /\ record' = [record EXCEPT !.state = "installed", !.touched = TRUE]
  /\ UNCHANGED <<ids, slot>>

\* The new sketch's loop returned once.
Confirm ==
  /\ record.id # 0 /\ record.state = "installed"
  /\ record' = [record EXCEPT !.state = "boot_confirmed"]
  /\ UNCHANGED <<ids, slot>>

Reset ==
  /\ record' = NoRecord /\ ids' = 0
  /\ UNCHANGED slot

RecordInit ==
  /\ record = NoRecord /\ ids = 0
  /\ slot \in Valid \cup {None}

Request(o) ==
  \/ \E c \in Capsules : Begin(o, c)
  \/ record.id # 0 /\ \E n \in 1..Size[record.capsule] : Chunk(o, n)
  \/ Finish(o) \/ Commit(o) \/ Abandon(o)

Poll == GiveUp \/ Write \/ Spoil \/ Install \/ Confirm

RecordNext == (\E o \in Owners : Request(o)) \/ Poll \/ Reset

RecordSpec == RecordInit /\ [][RecordNext]_recordVars
=============================================================================
