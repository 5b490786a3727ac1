-------------------------------- MODULE Soak --------------------------------
(***************************************************************************)
(* soak.run: bounded echo traffic in batches, over sessions that are       *)
(* closed and reopened, against a device that may corrupt, overrun or      *)
(* restart; and the evidence file it saves as it goes.  A batch is one     *)
(* unit of bytes.                                                          *)
(***************************************************************************)
EXTENDS Naturals

CONSTANTS
  Modes,           \* firmware ("application" or "uart") and --diagnostics
  ReconnectEvery,  \* batches per session
  MaxBatches,      \* bound: batches that fit into the duration
  MaxBoots,        \* bound: restarts of the device
  MaxOver          \* bound: receive overruns of the UART

VARIABLES
  mode,     \* the options of this run
  pc,       \* where run() is
  report,   \* the report in memory
  file,     \* what the evidence file holds
  link,     \* the boot whose connection the Probe holds, or 0
  boot,     \* the boot the first hello named, or 0
  owed,     \* session_bytes
  last,     \* last_diagnostics: overruns seen, and the boot they are of
  dev,      \* the device: boot, session counters, overruns since boot
  truth     \* history: exact batches, their boots, overruns when last counted

vars == <<mode, pc, report, file, link, boot, owed, last, dev, truth>>

NoFile == [status |-> "absent", batches |-> 0, sessions |-> 0]
NoDiagnostics == [boot |-> 0, over |-> 0]

Init ==
  /\ mode \in Modes
  /\ pc = "reserve" /\ link = 0 /\ boot = 0 /\ owed = 0
  /\ report = [status |-> "running", batches |-> 0, sessions |-> 0]
  /\ file \in {NoFile, [NoFile EXCEPT !.status = "foreign"]}
  /\ last = NoDiagnostics
  /\ dev = [boot |-> 1, bytes |-> 0, over |-> 0]
  /\ truth = [exact |-> 0, boots |-> {}, over |-> 0, opened |-> 0]

----------------------------------------------------------------------------
(* The device *)

Restart ==
  /\ dev.boot <= MaxBoots
  /\ dev' = [boot |-> dev.boot + 1, bytes |-> 0, over |-> 0]
  /\ UNCHANGED <<pc, report, file, link, boot, owed, last, truth>>

Overrun ==
  /\ mode.firmware = "uart" /\ dev.over < MaxOver
  /\ dev' = [dev EXCEPT !.over = @ + 1]
  /\ UNCHANGED <<pc, report, file, link, boot, owed, last, truth>>

Connected == link = dev.boot     \* the connection has not gone with its boot

----------------------------------------------------------------------------
(* run() *)

Saved == file' = report'

\* The exception handlers and the finally clause: the report is saved whatever
\* happened, and nothing is retried.
End(status) ==
  /\ report' = [report EXCEPT !.status = status]
  /\ pc' = "done" /\ link' = 0 /\ Saved

Fail == End("failed") /\ UNCHANGED <<boot, owed, last, dev, truth>>

\* Path.open('x') and the first save().
Reserve ==
  /\ pc = "reserve"
  /\ IF file = NoFile THEN pc' = "loop" /\ UNCHANGED report /\ Saved
     ELSE pc' = "refused" /\ UNCHANGED <<report, file>>
  /\ UNCHANGED <<link, boot, owed, last, dev, truth>>

\* The head of the while loop, before the deadline; the device may not answer.
Connect ==
  /\ pc = "loop" /\ link = 0 /\ report.batches < MaxBatches
  /\ \/ /\ pc' = "hello" /\ link' = dev.boot
        /\ UNCHANGED <<report, file, boot, owed, last, dev, truth>>
     \/ Fail

SameBoot == boot \in {0, link}
Hello ==
  /\ pc = "hello"
  /\ IF SameBoot
     THEN /\ pc' = IF mode.measured THEN "diagnose" ELSE "open"
          /\ boot' = IF boot = 0 THEN link ELSE boot
          /\ UNCHANGED <<report, file, link, owed, last, dev, truth>>
     ELSE Fail

\* Mutant: overruns are measured and not looked at.
IgnoreLoss == TRUE

\* diagnostics(): lifetime counters may not go back.
Unbroken == last.boot = dev.boot => last.over <= dev.over
Lossless == mode.firmware = "uart" => dev.over = 0
LosslessBatch == mode.firmware = "uart" => dev.over = 0

Diagnose ==
  /\ pc = "diagnose"
  /\ IF Connected /\ Unbroken /\ Lossless
     THEN /\ pc' = "open" /\ last' = [boot |-> dev.boot, over |-> dev.over]
          /\ UNCHANGED <<report, file, link, boot, owed, dev, truth>>
     ELSE Fail

Open ==
  /\ pc = "open"
  /\ IF Connected
     THEN /\ pc' = "batch" /\ owed' = 0
          /\ dev' = [dev EXCEPT !.bytes = 0]
          /\ truth' = [truth EXCEPT !.opened = @ + 1]
          /\ UNCHANGED <<report, file, link, boot, last>>
     ELSE Fail

\* save() with in_progress_batch, then echo(): what comes back is exact, is
\* not, or does not come at all.  The device counts what it handled.
Batching == pc = "batch" \/ (pc = "loop" /\ link # 0 /\ report.batches < MaxBatches)
Echo ==
  /\ Batching
  /\ \/ /\ Connected
        /\ pc' = "status" /\ owed' = owed + 1
        /\ dev' = [dev EXCEPT !.bytes = @ + 1]
        /\ truth' = [truth EXCEPT !.exact = @ + 1, !.boots = @ \cup {dev.boot}]
        /\ UNCHANGED <<report, link, boot, last>> /\ Saved
     \/ Fail

\* serial.status.
Status ==
  /\ pc = "status"
  /\ IF Connected /\ dev.bytes = owed
     THEN pc' = (IF mode.measured THEN "measure" ELSE "count")
          /\ UNCHANGED <<report, file, link, boot, owed, last, dev, truth>>
     ELSE Fail

Measure ==
  /\ pc = "measure"
  /\ IF Connected /\ Unbroken /\ LosslessBatch
     THEN /\ pc' = "count" /\ last' = [boot |-> dev.boot, over |-> dev.over]
          /\ truth' = [truth EXCEPT !.over = dev.over]
          /\ UNCHANGED <<report, file, link, boot, owed, dev>>
     ELSE Fail

\* The batch enters the report.  The session is closed after every
\* ReconnectEvery of them, which may fail, and only then is the report saved.
Count ==
  /\ pc = "count"
  /\ report' = [report EXCEPT !.batches = @ + 1]
  /\ pc' = IF (report.batches + 1) % ReconnectEvery = 0 THEN "close" ELSE "save"
  /\ UNCHANGED <<file, link, boot, owed, last, dev, truth>>

\* serial.close and finish, which waits to see the device close.
Close ==
  /\ pc \in {"close", "last_close"}
  /\ IF Connected
     THEN /\ pc' = (IF pc = "close" THEN "save" ELSE "verdict") /\ link' = 0
          /\ report' = [report EXCEPT !.sessions = @ + 1]
          /\ UNCHANGED <<file, boot, owed, last, dev, truth>>
     ELSE Fail

Save ==
  /\ pc = "save"
  /\ pc' = "loop" /\ UNCHANGED report /\ Saved
  /\ UNCHANGED <<link, boot, owed, last, dev, truth>>

\* The deadline has passed.
Deadline ==
  /\ pc = "loop"
  /\ pc' = IF link = 0 THEN "verdict" ELSE "last_close"
  /\ UNCHANGED <<report, file, link, boot, owed, last, dev, truth>>

Verdict ==
  /\ pc = "verdict"
  /\ IF report.batches = 0 THEN End("failed") ELSE End("passed")
  /\ UNCHANGED <<boot, owed, last, dev, truth>>

Busy == pc \notin {"reserve", "refused", "done", "killed"}

\* KeyboardInterrupt.
Interrupt == Busy /\ End("interrupted") /\ UNCHANGED <<boot, owed, last, dev, truth>>

\* The process is killed: only the file is left.
Kill ==
  /\ Busy /\ pc' = "killed" /\ link' = 0
  /\ UNCHANGED <<report, file, boot, owed, last, dev, truth>>

Work ==
        \/ Reserve \/ Connect \/ Hello \/ Diagnose \/ Open \/ Echo \/ Status
        \/ Measure \/ Count \/ Close \/ Save \/ Deadline \/ Verdict

Next == (Work \/ Interrupt \/ Kill \/ Restart \/ Overrun) /\ UNCHANGED mode

Spec == Init /\ [][Next]_vars

----------------------------------------------------------------------------
(* Properties *)

\* Evidence of a pass is evidence of one uninterrupted life of the device: all
\* the batches it counts were echoed exactly, in the boot that the first hello
\* named, and every session opened was seen to close.  With --diagnostics on a
\* UART it also means that no receive overrun had happened when the last batch
\* was counted.
PassedWithoutLoss ==
  file.status = "passed" =>
    /\ truth.boots = {boot} /\ file.batches = truth.exact
    /\ file.sessions = truth.opened /\ file.batches > 0
    /\ mode.measured /\ mode.firmware = "uart" => truth.over = 0
=============================================================================
