--------------------------- MODULE CheckpointFlash ---------------------------
(***************************************************************************)
(* checkpoint_flash.py: one stage and one commit against firmware that     *)
(* halts inside the install, with a journal of exclusive, synced event     *)
(* files.  The host may crash at any point, losing what was not synced;    *)
(* nothing is retried or queried afterwards, so the journal is all that is *)
(* known about the device.                                                 *)
(***************************************************************************)
EXTENDS UploadLink, Sequences

CONSTANT MaxEvents   \* journal bound (8)

VARIABLES
  pc,         \* the call the tool is in
  waiting,    \* a reply is awaited
  event,      \* base: the event being saved, or saved last
  offset,     \* chunks acknowledged
  journal,    \* event files in the output directory
  synced,     \* how many of them survive a crash of the host
  \* History, read by no action:
  sent,       \* the commit frame was sent
  taken       \* the device accepted that commit

tool == <<pc, waiting, event, offset, journal, synced>>
vars == <<recordVars, linkVars, tool, sent, taken>>

Opened == [state |-> "opened", attempts |-> 0, id |-> 0]

----------------------------------------------------------------------------
(* save() *)

Sync == pc' = "saved" /\ synced' = Len(journal)

\* An exclusive file per event; json.dump and flush.
SaveWrite ==
  /\ pc = "write" /\ Len(journal) < MaxEvents
  /\ journal' = Append(journal, event)
  /\ pc' = "sync"
  /\ UNCHANGED <<link, waiting, event, offset, synced>>

\* fsync of the file and of its directory.
SaveSync ==
  /\ pc = "sync"
  /\ Sync
  /\ UNCHANGED <<link, waiting, event, offset, journal>>

\* The call that follows each save.
AfterSave ==
  /\ pc = "saved"
  /\ pc' = CASE event.state = "opened"       -> "connect"
             [] event.state = "staging"      -> "begin"
             [] event.state = "commitIntent" -> "commit"
             [] OTHER                        -> "done"
  /\ IF event.state \in {"committing", "outcomeUnknown"} THEN HangUp(1) ELSE UNCHANGED link
  /\ UNCHANGED <<waiting, event, offset, journal, synced>>

Save(e) == pc' = "write" /\ event' = e

----------------------------------------------------------------------------
(* transfer *)

Connect ==
  /\ pc = "connect"
  /\ Open(1)
  /\ Save([Opened EXCEPT !.state = "staging"])
  /\ UNCHANGED <<waiting, offset, journal, synced>>

Send ==
  /\ pc \in {"begin", "chunk", "finish", "commit"} /\ ~waiting
  /\ SendOn(1, pc, event.id, offset)
  /\ waiting' = TRUE
  /\ UNCHANGED <<pc, event, offset, journal, synced>>

\* snapshot() and what each acknowledgement must say.
Acknowledges(r) ==
  /\ r.id # 0 /\ r.capsule = Image
  /\ pc # "begin" => r.id = event.id
  /\ CASE pc = "begin"  -> r.state = "accepted" /\ r.received = 0 /\ ~r.touched
       [] pc = "chunk"  -> r.state = "accepted" /\ r.received = offset + 1 /\ ~r.touched
       [] pc = "finish" -> r.state = "verified" /\ ~r.touched
       [] pc = "commit" -> r.state = "committing"

\* Mutant: the intent is recorded after the commit.
CommitFirst == pc' = "commit" /\ UNCHANGED event

RecordIntent == Save([event EXCEPT !.state = "commitIntent", !.attempts = 1])

Proceed ==
  /\ waiting /\ link[1].reply # None
  /\ Acknowledges(link[1].reply)
  /\ CASE pc = "begin"  -> pc' = "chunk" /\ event' = [event EXCEPT !.id = link[1].reply.id]
       [] pc = "chunk"  -> /\ pc' = IF offset + 1 < Size[Image] THEN "chunk" ELSE "finish"
                           /\ UNCHANGED event
       [] pc = "finish" -> RecordIntent
       [] pc = "commit" -> Save([event EXCEPT !.state = "committing"])
  /\ offset' = IF pc = "chunk" THEN offset + 1 ELSE offset
  /\ link' = [link EXCEPT ![1].reply = None]
  /\ waiting' = FALSE
  /\ UNCHANGED <<journal, synced>>

Uncertain == Save([event EXCEPT !.state = "outcomeUnknown"])

\* A timeout, a closed socket or another answer: only commit's is recorded, any
\* other ends the program.
Fault ==
  /\ waiting
  /\ link[1].reply # None => ~Acknowledges(link[1].reply)
  /\ waiting' = FALSE
  /\ IF pc = "commit" THEN Uncertain /\ UNCHANGED link
     ELSE pc' = "done" /\ HangUp(1) /\ UNCHANGED event
  /\ UNCHANGED <<offset, journal, synced>>

\* connect refused, or an I/O error in save(): an exception ends the program.
Raise ==
  /\ pc \in {"connect", "write", "sync"}
  /\ pc' = "done" /\ HangUp(1)
  /\ UNCHANGED <<waiting, event, offset, journal, synced>>

\* The host loses power or the process is killed: event files that were not
\* synced may be lost.
Crash ==
  /\ pc # "crashed"
  /\ pc' = "crashed" /\ waiting' = FALSE /\ HangUp(1)
  /\ \E n \in synced..Len(journal) : journal' = SubSeq(journal, 1, n) /\ synced' = n
  /\ UNCHANGED <<event, offset>>

Tool == \/ SaveWrite \/ SaveSync \/ AfterSave \/ Connect \/ Send \/ Proceed \/ Fault
        \/ Raise \/ Crash

----------------------------------------------------------------------------
Init ==
  /\ RecordInit /\ LinkInit
  /\ pc = "write" /\ event = Opened
  /\ waiting = FALSE /\ offset = 0
  /\ journal = <<>> /\ synced = 0
  /\ sent = 0 /\ taken = FALSE

Remember ==
  /\ sent' = IF pc = "commit" /\ ~waiting /\ waiting' THEN sent + 1 ELSE sent
  /\ taken' = (taken \/ (/\ record.state = "verified" /\ record'.state = "committing"
                         /\ record.owner = link[1].owner))

Next ==
  \/ Tool /\ UNCHANGED <<recordVars, boot>> /\ Remember
  \/ Device /\ UNCHANGED tool /\ Remember

Finished == pc \in {"done", "crashed"} /\ UNCHANGED vars

Spec == Init /\ [][Next \/ Finished]_vars

----------------------------------------------------------------------------
(* Properties *)

\* Once the commit frame may have left the host, an event that survives a crash
\* names the transaction and says that a commit was attempted: a journal without
\* one shows that the slot was not written for this tool.  And it says "committing"
\* only if the device accepted the commit.
IntentSurvives ==
  /\ (\E i \in 1..Len(journal) : journal[i].state = "committing") => taken
  /\ sent > 0 => /\ sent = 1
                 /\ \E i \in 1..synced : journal[i].attempts = 1 /\ journal[i].id = event.id
=============================================================================
