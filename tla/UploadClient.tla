---------------------------- MODULE UploadClient ----------------------------
(***************************************************************************)
(* fmgo_upload.py transfer: stage a capsule, commit it once when --install *)
(* was given, and read the outcome back over a second connection.  Every   *)
(* request may be refused, its reply lost or late, and the device may      *)
(* restart or serve another client between any two steps.                  *)
(***************************************************************************)
EXTENDS UploadLink

VARIABLES
  installing, \* --install was given; otherwise --stage-only
  pc,         \* the next request, or the call the tool is in
  waiting,    \* the request was sent and its reply is awaited
  hello,      \* boot_id of the first hello
  uploadId,   \* upload_id of the begin reply
  offset,     \* chunks acknowledged
  lost,       \* commit_reply_lost
  late,       \* reconcile's deadline has passed
  final,      \* the status reconcile returns
  outcome,    \* how transfer ended: "raised" or "returned"
  \* History, read by no action:
  mine,       \* <<boot, id>> of the transaction this tool began
  confirmed   \* <<boot, id>> of every transaction ever confirmed

tool == <<pc, waiting, hello, uploadId, offset, lost, late, final, outcome>>
history == <<mine, confirmed>>
vars == <<recordVars, linkVars, installing, tool, history>>

\* The connection in use: transfer's own, then reconcile's.
K == IF pc \in {"reconnect", "status", "close2", "closing2"} THEN 2 ELSE 1

----------------------------------------------------------------------------
(* Replies *)

\* snapshot(): the reply describes the selected transaction.
Snapshot(r, id) ==
  /\ r.id = id /\ r.capsule = Image /\ r.received <= Size[Image]
  /\ r.state \in States

\* What transfer demands of each acknowledgement.
Acknowledges(r) ==
  CASE pc = "begin"  -> r.id # 0 /\ Snapshot(r, r.id) /\ r.state = "accepted"
                        /\ r.received = 0 /\ ~r.touched
    [] pc = "chunk"  -> Snapshot(r, uploadId) /\ r.state = "accepted"
                        /\ r.received = offset + 1 /\ ~r.touched
    [] pc = "finish" -> Snapshot(r, uploadId) /\ r.state = "verified" /\ ~r.touched
    [] pc = "commit" -> Snapshot(r, uploadId) /\ r.state = "committing"
    [] pc = "status" -> Snapshot(r, uploadId)

\* An exception leaves the with statement, which closes the socket.
Raise ==
  /\ HangUp(K)
  /\ pc' = "done" /\ waiting' = FALSE /\ outcome' = "raised"
  /\ UNCHANGED <<hello, uploadId, offset, lost, late, final>>

----------------------------------------------------------------------------
(* transfer *)

Connect ==
  /\ pc = "connect"
  /\ \/ Open(1) /\ pc' = "begin" /\ hello' = boot /\ UNCHANGED <<waiting, outcome>>
     \/ UNCHANGED <<link, hello, waiting>> /\ pc' = "done" /\ outcome' = "raised"
  /\ UNCHANGED <<uploadId, offset, lost, late, final>>

Send ==
  /\ pc \in {"begin", "chunk", "finish", "commit", "status"} /\ ~waiting
  /\ SendOn(K, pc, uploadId, offset)
  /\ waiting' = TRUE
  /\ UNCHANGED <<pc, hello, uploadId, offset, lost, late, final, outcome>>

Terminal(r) == r.state \in {"boot_confirmed", "failed", "aborted"}

\* The calls after an acknowledged request; reconcile polls until the status
\* is terminal or its deadline has passed.
Following(r) ==
  CASE pc = "begin"  -> "chunk"
    [] pc = "chunk"  -> IF offset + 1 < Size[Image] THEN "chunk" ELSE "finish"
    [] pc = "finish" -> IF installing THEN "commit" ELSE "close1"
    [] pc = "commit" -> "close1"
    [] pc = "status" -> IF Terminal(r) \/ late THEN "close2" ELSE "status"

Proceed ==
  /\ waiting /\ link[K].reply # None
  /\ LET r == link[K].reply IN
     /\ Acknowledges(r)
     /\ pc' = Following(r)
     /\ uploadId' = IF pc = "begin" THEN r.id ELSE uploadId
     /\ offset' = IF pc = "chunk" THEN offset + 1 ELSE offset
     /\ final' = IF pc = "status" THEN r ELSE final
  /\ link' = [link EXCEPT ![K].reply = None]
  /\ waiting' = FALSE
  /\ UNCHANGED <<hello, lost, late, outcome>>

\* The except clause around commit: query the status only.
CommitUncertain ==
  /\ HangUp(1)
  /\ pc' = "reconnect" /\ waiting' = FALSE /\ lost' = TRUE
  /\ UNCHANGED <<hello, uploadId, offset, late, final, outcome>>

\* The deadline passed, the peer closed, or the reply is not the one expected.
Fault ==
  /\ waiting
  /\ link[K].reply # None => ~Acknowledges(link[K].reply)
  /\ IF pc = "commit" THEN CommitUncertain ELSE Raise

\* Probe.finish: shut down, then see the peer close within three seconds.
Shut ==
  /\ pc \in {"close1", "close2"}
  /\ HangUp(K)
  /\ pc' = IF pc = "close1" THEN "closing1" ELSE "closing2"
  /\ UNCHANGED <<waiting, hello, uploadId, offset, lost, late, final, outcome>>

Disposed == installing \/ (final.state = "aborted" /\ ~final.touched)

PeerClosed ==
  /\ pc \in {"closing1", "closing2"}
  /\ link[K].server # "open"
  /\ IF pc = "closing1" THEN pc' = "reconnect" /\ UNCHANGED outcome
     ELSE pc' = "done" /\ outcome' = IF Disposed THEN "returned" ELSE "raised"
  /\ UNCHANGED <<link, waiting, hello, uploadId, offset, lost, late, final>>

NotClosed == pc \in {"closing1", "closing2"} /\ Raise

\* Mutant: the boot is not compared.
AnyBoot == TRUE

SameBoot == boot = hello

\* reconcile's own connection, opened once.
Reconnect ==
  /\ pc = "reconnect"
  /\ \/ /\ Open(2) /\ SameBoot
        /\ pc' = "status"
        /\ UNCHANGED <<waiting, hello, uploadId, offset, lost, late, final, outcome>>
     \/ Raise

Deadline ==
  /\ pc = "status" /\ ~late
  /\ late' = TRUE
  /\ UNCHANGED <<link, pc, waiting, hello, uploadId, offset, lost, final, outcome>>

Tool == \/ Connect \/ Send \/ Proceed \/ Fault \/ Shut \/ PeerClosed \/ NotClosed
        \/ Reconnect \/ Deadline

----------------------------------------------------------------------------
Init ==
  /\ RecordInit /\ LinkInit
  /\ installing \in BOOLEAN
  /\ pc = "connect" /\ waiting = FALSE /\ hello = 0 /\ uploadId = 0 /\ offset = 0
  /\ lost = FALSE /\ late = FALSE /\ final = NoRecord /\ outcome = "running"
  /\ mine = <<0, 0>> /\ confirmed = {}

Remember ==
  /\ mine' = IF ids' = ids + 1 /\ record'.owner = link[1].owner
             THEN <<boot, ids'>> ELSE mine
  /\ confirmed' = IF record'.id # 0 /\ record'.state = "boot_confirmed"
                  THEN confirmed \cup {<<boot', record'.id>>} ELSE confirmed

ToolStep(A) == A /\ UNCHANGED <<recordVars, boot, installing>> /\ Remember

DeviceStep == Device /\ UNCHANGED <<installing, tool>> /\ Remember

Next == ToolStep(Tool) \/ DeviceStep

Finished == pc = "done" /\ UNCHANGED vars

Spec == Init /\ [][Next \/ Finished]_vars

----------------------------------------------------------------------------
(* Properties *)

Mine == record.id # 0 /\ <<boot, record.id>> = mine

\* What transfer returns is true of the transaction it began itself.  A confirmed
\* sketch is its own, never one that another client installed or one from after a
\* restart with the same id and digest; what reconcile saw before its deadline
\* cannot change afterwards, although the commit frame of the first connection may
\* still be on its way; and under --stage-only the stage is gone for good.
ConfirmedIsMine ==
  outcome = "returned" =>
    /\ final.state = "boot_confirmed" => mine \in confirmed
    /\ ~late /\ Mine => record.state = final.state /\ record.touched = final.touched
    /\ ~installing /\ Mine => record.state = "aborted"
=============================================================================
