------------------------------- MODULE Attach -------------------------------
(***************************************************************************)
(* attach.run: the detach/reattach qualification of one selected Nano.     *)
(* The user pulls and plugs the cable, the host enumerates the device and  *)
(* takes a lease, and the tool polls what the host shows, while the        *)
(* readiness deadline runs.  A stage is saved as it is entered.            *)
(***************************************************************************)
EXTENDS Naturals, Sequences

CONSTANTS
  Cycles,     \* --cycles
  MaxPlugs,   \* bound: attachments
  MaxBlinks   \* bound: times the registry drops a device that stays attached

VARIABLES
  pc,        \* where run() is
  report,    \* status and cycles of the report in memory
  file,      \* what save() last put in place
  previous,  \* registry_id of the attachment the last cycle ended with
  present,   \* registry_id that this cycle's arrival showed
  late,      \* ready_timeout has passed since the arrival
  usb,       \* the device: attachment number (its registry_id), attached, listed
  net,       \* the attachment the interface has a lease for, or 0
  blinks,    \* times the registry dropped it
  streams    \* traffic(): the echo and source threads and the overlap so far

vars == <<pc, report, file, previous, present, late, usb, net, blinks, streams>>
host == <<usb, net, blinks>>

NoStreams == [echo |-> "idle", source |-> "idle", asked |-> 0, overlap |-> TRUE]

Init ==
  /\ pc = "preflight" /\ late = FALSE /\ streams = NoStreams
  /\ report = [status |-> "preflight", cycles |-> <<>>] /\ file = report
  /\ usb = [id |-> 1, attached |-> TRUE, listed |-> TRUE]
  /\ net \in {0, 1} /\ previous = 0 /\ present = 0 /\ blinks = 0

----------------------------------------------------------------------------
(* The user and the host *)

Unplug ==
  /\ usb.attached
  /\ usb' = [usb EXCEPT !.attached = FALSE, !.listed = FALSE]
  /\ net' = 0
  /\ UNCHANGED <<pc, report, file, previous, present, late, blinks, streams>>

Plug ==
  /\ ~usb.attached /\ usb.id < MaxPlugs
  /\ usb' = [id |-> usb.id + 1, attached |-> TRUE, listed |-> TRUE]
  /\ UNCHANGED <<pc, report, file, previous, present, late, net, blinks, streams>>

\* A registry snapshot lacks a device that is attached, and has it again later.
Blink ==
  /\ usb.attached
  /\ \/ usb.listed /\ blinks < MaxBlinks /\ blinks' = blinks + 1
     \/ ~usb.listed /\ UNCHANGED blinks
  /\ usb' = [usb EXCEPT !.listed = ~@]
  /\ UNCHANGED <<pc, report, file, previous, present, late, net, streams>>

Lease ==
  /\ usb.attached /\ net # usb.id /\ net' = usb.id
  /\ UNCHANGED <<pc, report, file, previous, present, late, usb, blinks, streams>>

\* ready_timeout runs out.
Late ==
  /\ pc \in {"network", "identity", "in_time"} /\ ~late /\ late' = TRUE
  /\ UNCHANGED <<pc, report, file, previous, present, host, streams>>

----------------------------------------------------------------------------
(* run() *)

LastStatus == report.cycles[Len(report.cycles)].status
SetLast(status, seen) ==
  [report EXCEPT !.cycles[Len(report.cycles)] = [status |-> status, seen |-> seen]]
Saved == file' = report'

\* The handler for every exception and for Ctrl-C.
Raise ==
  /\ report' =
       [IF report.cycles = <<>> \/ LastStatus = "functional_pass" THEN report
        ELSE LET c == report.cycles[Len(report.cycles)]
             IN  SetLast(IF c.seen THEN "failed" ELSE "not_started", c.seen)
        EXCEPT !.status = "incomplete"]
  /\ pc' = "done" /\ Saved
  /\ UNCHANGED <<previous, present, late, host, streams>>

\* The preflight wants the device, its lease and its identity.
Preflight ==
  /\ pc = "preflight"
  /\ IF usb.listed /\ net = usb.id
     THEN /\ previous' = usb.id /\ pc' = "cycle"
          /\ report' = [report EXCEPT !.status = "armed"] /\ Saved
          /\ UNCHANGED <<present, late, host, streams>>
     ELSE Raise

Arm ==
  /\ pc = "cycle"
  /\ IF Len(report.cycles) < Cycles
     THEN /\ report' = [report EXCEPT !.cycles =
                          Append(@, [status |-> "waiting_for_unplug", seen |-> FALSE])]
          /\ pc' = "unplug"
     ELSE /\ report' = [report EXCEPT !.status = "complete"]
          /\ pc' = "done"
  /\ Saved
  /\ UNCHANGED <<previous, present, late, host, streams>>

\* wait_for(not usb): a poll that does not list the device.
SeeUnplugged ==
  /\ pc = "unplug" /\ ~usb.listed
  /\ report' = SetLast("waiting_for_plug", FALSE) /\ Saved
  /\ pc' = "plug"
  /\ UNCHANGED <<previous, present, late, host, streams>>

\* wait_for(usb): a poll that lists it.
SeePlugged ==
  /\ pc = "plug" /\ usb.listed
  /\ present' = usb.id /\ late' = FALSE
  /\ report' = SetLast("waiting_for_network", TRUE) /\ Saved
  /\ pc' = "instance"
  /\ UNCHANGED <<previous, host, streams>>

\* Mutant: the registry_id is not compared.
AnyInstance ==
  /\ pc = "instance" /\ pc' = "network"
  /\ UNCHANGED <<report, file, previous, present, late, host, streams>>
\* A device that has not been detached keeps its registry_id.
NewInstance ==
  /\ pc = "instance"
  /\ IF present # previous
     THEN /\ pc' = "network"
          /\ UNCHANGED <<report, file, previous, present, late, host, streams>>
     ELSE Raise

\* wait_for(network) within what is left of the budget, and the routes.
SeeLease ==
  /\ pc = "network" /\ net # 0
  /\ IF late THEN Raise
     ELSE /\ pc' = "identity"
          /\ UNCHANGED <<report, file, previous, present, late, host, streams>>

\* identity(): one attempt; the device must answer.
Identify ==
  /\ pc = "identity"
  /\ IF late \/ net = 0 THEN Raise
     ELSE /\ pc' = "in_time"
          /\ UNCHANGED <<report, file, previous, present, late, host, streams>>

\* The answer itself may have come after the deadline.
InTime ==
  /\ pc = "in_time"
  /\ IF late THEN Raise
     ELSE /\ report' = SetLast("checking", TRUE) /\ Saved
          /\ pc' = "traffic" /\ streams' = NoStreams
          /\ UNCHANGED <<previous, present, late, host>>

\* traffic(): two worker threads, each of which may fail, ...
Stream(k) ==
  /\ pc \in {"traffic", "join"}
  /\ \/ streams[k] = "idle" /\ streams' = [streams EXCEPT ![k] = "running"]
     \/ /\ streams[k] = "running"
        /\ streams' = [streams EXCEPT ![k] = IF net = 0 THEN "failed" ELSE "ended"]
  /\ UNCHANGED <<pc, report, file, previous, present, late, host>>

\* ... while the main thread makes its two requests; each must begin and end
\* while both streams run (even steps begin a request, odd ones end it).
Overlapping == streams.echo = "running" /\ streams.source = "running"
Ask ==
  /\ pc = "traffic"
  /\ \/ /\ streams.asked < 4
        /\ streams' = [streams EXCEPT !.asked = @ + 1,
                                      !.overlap = @ /\ Overlapping]
        /\ UNCHANGED pc
     \/ streams.asked = 4 /\ pc' = "join" /\ UNCHANGED streams
  /\ UNCHANGED <<report, file, previous, present, late, host>>

\* The results of both threads, the reconnection, and the verdict of the cycle.
Join ==
  /\ pc = "join"
  /\ {streams.echo, streams.source} \subseteq {"ended", "failed"}
  /\ IF streams.echo = "ended" /\ streams.source = "ended" /\ streams.overlap /\ net # 0
     THEN /\ report' = SetLast("functional_pass", TRUE) /\ Saved
          /\ pc' = "cycle" /\ previous' = present
          /\ UNCHANGED <<present, late, host, streams>>
     ELSE Raise

\* An observation fails, a deadline expires, a request is refused, or Ctrl-C.
Abort == pc \notin {"done", "killed"} /\ Raise

Kill ==
  /\ pc \notin {"done", "killed"} /\ pc' = "killed"
  /\ UNCHANGED <<report, file, previous, present, late, host, streams>>

Work == \/ Preflight \/ Arm \/ SeeUnplugged \/ SeePlugged \/ NewInstance \/ SeeLease
        \/ Identify \/ InTime \/ Ask \/ Join \/ Stream("echo") \/ Stream("source")
Next == Work \/ Abort \/ Kill \/ Unplug \/ Plug \/ Blink \/ Lease \/ Late

Spec == Init /\ [][Next]_vars

----------------------------------------------------------------------------
(* Properties *)

\* Every cycle that passes has an attachment of its own behind it: the cable
\* really was pulled and plugged once more for it, even if the registry dropped
\* the device for a moment while it stayed attached; and no cycle goes on to the
\* traffic whose device identified itself after the readiness deadline.  A report
\* that says "complete" has a pass for every cycle asked for.
PassesAreAttachments ==
  /\ Len(SelectSeq(report.cycles, LAMBDA c : c.status = "functional_pass")) <= usb.id - 1
  /\ pc \in {"traffic", "join"} => ~late
  /\ file.status = "complete" =>
       /\ Len(file.cycles) = Cycles
       /\ \A i \in 1 .. Cycles : file.cycles[i].status = "functional_pass"
=============================================================================
