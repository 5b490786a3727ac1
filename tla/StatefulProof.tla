---------------------------- MODULE StatefulProof ----------------------------
(***************************************************************************)
(* build_stateful_proof.py and its consumer checkpoint_flash.checked_inputs*)
(* over one output directory.  An attempt builds the resident, links the   *)
(* counter module against it, has the native checker accept the capsule    *)
(* and reject a corrupt copy, and publishes a report.  The flasher later   *)
(* reads everything back, file by file.                                    *)
(*                                                                         *)
(* Meanwhile sources are edited, the checker is rebuilt, and build_resident*)
(* (which accepts an existing directory) may rebuild the resident in       *)
(* place.  A version stands for a source's hash, a build number for the    *)
(* hash of that build's ELF and UF2.                                       *)
(***************************************************************************)
EXTENDS Naturals

CONSTANTS
  Attempts,        \* proof commands given the same --output-dir
  ProofSources,    \* files hashed by build_stateful_proof.py
  ResidentSources, \* files hashed by build_resident.py
  Modes,           \* kinds of resident: "upload", "checkpoint", ...
  MaxEdits,        \* bound on source edits
  MaxBuilds,       \* bound on resident builds
  MaxRebuilds      \* bound on rebuilds of the checker

VARIABLES
  tree,      \* tree[f]: version of source f
  checker,   \* the managed_stateful_check executable
  artifacts, \* resident/artifacts: the ELF and its UF2
  resident,  \* resident/report.json
  builder,   \* a run of build_resident.py on that directory
  report,    \* report.json, and whether the directory exists
  capsule,   \* stateful_counter.fms
  proof,     \* proof[a]: a run of build_stateful_proof.py
  flash      \* a run of checked_inputs

disk == <<artifacts, resident, report, capsule>>
vars == <<tree, checker, disk, builder, proof, flash>>

Files == ProofSources \cup ResidentSources
Old == [f \in Files |-> 0]
NoBuild == [n |-> 0, src |-> Old, mode |-> "none"]
NoResident == [ok |-> FALSE, build |-> NoBuild, sources |-> Old]
NoCapsule == [src |-> Old, for |-> 0, good |-> FALSE]
NoProof == [status |-> "absent", sources |-> Old, contract |-> NoBuild, capsule |-> NoCapsule,
            checker |-> 0, resident |-> NoResident]
Fresh(m) == [pc |-> "start", mode |-> m, todo |-> ProofSources, sources |-> Old,
             resident |-> NoResident, elf |-> NoBuild, capsule |-> NoCapsule]
Idle == [pc |-> "idle", pinned |-> NoBuild, pick |-> NoCapsule, todo |-> {}, report |-> NoProof,
         resident |-> NoResident, elf |-> NoBuild, capsule |-> NoCapsule]

Init ==
  /\ tree = Old
  /\ checker \in [n : {0}, strict : BOOLEAN]
  /\ artifacts = NoBuild /\ resident = NoResident /\ capsule = NoCapsule
  /\ builder = [pc |-> "idle", for |-> 0, mode |-> "none"]
  /\ report = NoProof
  /\ proof \in [Attempts -> {Fresh(m) : m \in Modes}]
  /\ flash = Idle

Edits == CHOOSE n \in 0..MaxEdits : (\E f \in Files : tree[f] = n) /\ \A f \in Files : tree[f] <= n

Edit ==
  /\ Edits < MaxEdits
  /\ \E f \in Files : tree' = [tree EXCEPT ![f] = Edits + 1]
  /\ UNCHANGED <<checker, disk, builder, proof, flash>>

\* A checker that is not strict accepts every capsule.
Rebuild ==
  /\ checker.n < MaxRebuilds
  /\ \E s \in BOOLEAN : checker' = [n |-> checker.n + 1, strict |-> s]
  /\ UNCHANGED <<tree, disk, builder, proof, flash>>

CheckerAccepts(c) == checker.strict => c.good

----------------------------------------------------------------------------
(* build_resident.py *)

StartBuilder(who, m) == builder' = [pc |-> "compile", for |-> who, mode |-> m]

\* The developer rebuilds the resident in place.
RebuildResident ==
  /\ builder.pc = "idle" /\ artifacts.n > 0
  /\ \E m \in Modes : StartBuilder(0, m)
  /\ UNCHANGED <<tree, checker, disk, proof, flash>>

\* The old report is unlinked, then the compiler runs.
CompileResident ==
  /\ builder.pc = "compile" /\ artifacts.n < MaxBuilds
  /\ resident' = NoResident
  /\ artifacts' = [n |-> artifacts.n + 1, src |-> tree, mode |-> builder.mode]
  /\ builder' = [builder EXCEPT !.pc = "report"]
  /\ UNCHANGED <<tree, checker, report, capsule, proof, flash>>

\* The sources are hashed after the compiler has finished.
ReportResident ==
  /\ builder.pc = "report"
  /\ resident' = [ok |-> TRUE, build |-> artifacts, sources |-> tree]
  /\ builder' = [builder EXCEPT !.pc = IF builder.for = 0 THEN "idle" ELSE "built"]
  /\ UNCHANGED <<tree, checker, artifacts, report, capsule, proof, flash>>

BuildFails ==
  /\ builder.pc \in {"compile", "report"}
  /\ resident' = NoResident
  /\ builder' = [builder EXCEPT !.pc = IF builder.for = 0 THEN "idle" ELSE "failed"]
  /\ UNCHANGED <<tree, checker, artifacts, report, capsule, proof, flash>>

Builder == CompileResident \/ ReportResident \/ BuildFails

----------------------------------------------------------------------------
(* build_stateful_proof.py *)

At(a, pc) == proof[a].pc = pc /\ UNCHANGED <<tree, checker, flash, artifacts, resident>>
Go(a, p) == proof' = [proof EXCEPT ![a] = p]
Step(a, pc) == Go(a, [proof[a] EXCEPT !.pc = pc])
Require(a, ok, pc) == Step(a, IF ok THEN pc ELSE "raise")

\* mkdir with exist_ok=False.
Mkdir(a) ==
  IF report.status = "absent"
  THEN report' = [NoProof EXCEPT !.status = "empty"] /\ Step(a, "claim")
  ELSE Step(a, "refused") /\ UNCHANGED report

ClaimFailed(a) == report' = [NoProof EXCEPT !.status = "failed"] /\ Step(a, "hash")

Prepare(a) ==
  /\ \/ At(a, "start") /\ Mkdir(a)
     \/ At(a, "claim") /\ ClaimFailed(a)
  /\ UNCHANGED <<capsule, builder>>

\* sourceSHA256, one file at a time; the command then runs build_resident.py.
Hash(a) ==
  /\ At(a, "hash")
  /\ \/ \E f \in proof[a].todo :
          Go(a, [proof[a] EXCEPT !.todo = @ \ {f}, !.sources[f] = tree[f]]) /\ UNCHANGED builder
     \/ /\ proof[a].todo = {} /\ builder.pc = "idle"
        /\ StartBuilder(a, proof[a].mode)
        /\ Step(a, "resident")
  /\ UNCHANGED <<report, capsule>>

Built(a) ==
  /\ At(a, "resident") /\ builder.for = a /\ builder.pc \in {"built", "failed"}
  /\ Require(a, builder.pc = "built", "load")
  /\ builder' = [builder EXCEPT !.pc = "idle", !.for = 0]
  /\ UNCHANGED <<report, capsule>>

\* The report, and its status for the selected mode.
LoadResident(a) ==
  /\ At(a, "load")
  /\ IF resident.ok /\ resident.build.mode = proof[a].mode
     THEN Go(a, [proof[a] EXCEPT !.pc = "elf", !.resident = resident])
     ELSE Step(a, "raise")
  /\ UNCHANGED <<report, capsule, builder>>

\* The artifacts against that report; resident_contract and check_uf2 may refuse them.
Contract(a) ==
  /\ At(a, "elf")
  /\ \/ /\ artifacts = proof[a].resident.build /\ artifacts.mode = proof[a].mode
        /\ Go(a, [proof[a] EXCEPT !.pc = "compile", !.elf = artifacts])
     \/ Step(a, "raise")
  /\ UNCHANGED <<report, capsule, builder>>

\* Compile, link, module_capsule's checks, and the capsule is written.  What those
\* checks do not see is left to the checker (good).
Link(a) ==
  /\ At(a, "compile")
  /\ \/ \E g \in BOOLEAN :
          LET c == [src |-> tree, for |-> proof[a].elf.n, good |-> g]
          IN capsule' = c /\ Go(a, [proof[a] EXCEPT !.pc = "check", !.capsule = c])
     \/ Step(a, "raise") /\ UNCHANGED capsule
  /\ UNCHANGED <<report, builder>>

\* Only a strict checker rejects the corrupt copy.
RejectsCorrupt(a) == Require(a, checker.strict, "recheck")

Check(a) ==
  /\ \/ At(a, "check") /\ Require(a, CheckerAccepts(proof[a].capsule), "corrupt")
     \/ At(a, "corrupt") /\ RejectsCorrupt(a)
  /\ UNCHANGED <<report, capsule, builder>>

\* Mutant: the inventories are merged the other way round.
ResidentsSource(p, f) ==
  tree[f] = IF f \in ResidentSources THEN p.resident.sources[f] ELSE p.sources[f]

\* The two inventories merged; this command's own entries win.
SameSource(p, f) == tree[f] = IF f \in ProofSources THEN p.sources[f] ELSE p.resident.sources[f]

Recheck(a) ==
  /\ At(a, "recheck")
  /\ LET todo == IF proof[a].todo = {} THEN Files ELSE proof[a].todo
     IN \E f \in todo :
          IF SameSource(proof[a], f)
          THEN Go(a, [proof[a] EXCEPT !.todo = todo \ {f},
                                      !.pc = IF todo = {f} THEN "update" ELSE "recheck"])
          ELSE Step(a, "raise")
  /\ UNCHANGED <<report, capsule, builder>>

\* report.update hashes the checker and the resident's report as they are now; a
\* report that is gone by then raises.  The finally clause writes the report.
Publish(a) ==
  /\ At(a, "update")
  /\ IF resident.ok
     THEN /\ report' = [status |-> "passed", sources |-> proof[a].sources, contract |-> proof[a].elf,
                        capsule |-> proof[a].capsule, checker |-> checker.n, resident |-> resident]
          /\ Step(a, "passed")
     ELSE Step(a, "raise") /\ UNCHANGED report
  /\ UNCHANGED <<capsule, builder>>

Raise(a) ==
  /\ At(a, "raise")
  /\ report' = [NoProof EXCEPT !.status = "failed"] /\ Step(a, "failed")
  /\ UNCHANGED <<capsule, builder>>

Over == {"start", "passed", "failed", "refused", "killed"}

\* A kill; one inside a write leaves a report that does not parse.  A build it was
\* running dies with it or goes on alone.
Kill(a) ==
  /\ proof[a].pc \notin Over
  /\ UNCHANGED <<tree, checker, flash, artifacts, resident, capsule>>
  /\ Step(a, "killed")
  /\ \/ UNCHANGED report
     \/ proof[a].pc \in {"claim", "update", "raise"} /\ report' = [NoProof EXCEPT !.status = "torn"]
  /\ IF builder.for # a \/ proof[a].pc # "resident" THEN UNCHANGED builder
     ELSE \/ builder' = [builder EXCEPT !.pc = "idle", !.for = 0]
          \/ builder.pc \in {"compile", "report"} /\ builder' = [builder EXCEPT !.for = 0]

Proof(a) == \/ Prepare(a) \/ Hash(a) \/ Built(a) \/ LoadResident(a) \/ Contract(a) \/ Link(a)
            \/ Check(a) \/ Recheck(a) \/ Publish(a) \/ Raise(a) \/ Kill(a)

----------------------------------------------------------------------------
(* checkpoint_flash.checked_inputs *)

FlashAt(pc) == flash.pc = pc /\ UNCHANGED <<tree, checker, disk, builder, proof>>
FlashIf(ok, f) == flash' = IF ok THEN f ELSE [flash EXCEPT !.pc = "rejected"]

\* The operator selects the reviewed UF2 and capsule by their hashes.
Review ==
  /\ FlashAt("idle") /\ report.status = "passed"
  /\ flash' = [flash EXCEPT !.pc = "report", !.pinned = artifacts, !.pick = capsule]

LoadReport ==
  /\ FlashAt("report")
  /\ FlashIf(report.status = "passed", [flash EXCEPT !.pc = "resident", !.report = report])

LoadFaultResident ==
  /\ FlashAt("resident")
  /\ FlashIf(resident.ok /\ resident.build.mode = "checkpoint",
             [flash EXCEPT !.pc = "hash", !.resident = resident])

\* The resident's report is read a second time for its digest.
HashResident ==
  /\ FlashAt("hash")
  /\ FlashIf(resident = flash.report.resident, [flash EXCEPT !.pc = "sources", !.todo = Files])

\* Here the resident's entries win.
CheckSource ==
  /\ FlashAt("sources")
  /\ \E f \in flash.todo :
       FlashIf(tree[f] = IF f \in ResidentSources THEN flash.resident.sources[f]
                         ELSE flash.report.sources[f],
               [flash EXCEPT !.todo = @ \ {f},
                             !.pc = IF flash.todo = {f} THEN "artifacts" ELSE "sources"])

CheckArtifacts ==
  /\ FlashAt("artifacts")
  /\ FlashIf(/\ artifacts = flash.resident.build /\ artifacts = flash.pinned
             /\ capsule = flash.pick /\ capsule = flash.report.capsule,
             [flash EXCEPT !.pc = "contract", !.elf = artifacts, !.capsule = capsule])

\* resident_contract of the ELF just read, which names its hash.
SameContract == flash.elf = flash.report.contract /\ flash.elf.mode = "checkpoint"

CheckContract ==
  /\ FlashAt("contract")
  /\ FlashIf(SameContract, [flash EXCEPT !.pc = "checker"])

HashChecker ==
  /\ FlashAt("checker")
  /\ FlashIf(checker.n = flash.report.checker, [flash EXCEPT !.pc = "run"])

\* The checker runs on the file, not on the bytes read.
Revalidated == CheckerAccepts(capsule)

RunChecker ==
  /\ FlashAt("run")
  /\ FlashIf(Revalidated, [flash EXCEPT !.pc = "accepted"])

Flash == \/ Review \/ LoadReport \/ LoadFaultResident \/ HashResident \/ CheckSource
         \/ CheckArtifacts \/ CheckContract \/ HashChecker \/ RunChecker

Next == Edit \/ Rebuild \/ RebuildResident \/ Builder \/ Flash \/ \E a \in Attempts : Proof(a)

Spec == Init /\ [][Next]_vars

----------------------------------------------------------------------------
(* Properties *)

\* A passed report names the sources it was made from: of every file the proof hashes,
\* the recorded version is the one the module was compiled from and, where the
\* resident is built from it too, the one the resident was compiled from, however
\* edits fall between the two hashings, the compilers and the file-by-file recheck.
PassedIsOneTree ==
  report.status = "passed" =>
    \A f \in ProofSources :
      /\ report.capsule.src[f] = report.sources[f]
      /\ f \in ResidentSources => report.contract.src[f] = report.sources[f]

\* What checked_inputs hands to the transfer is what one passed proof checked: that
\* capsule, linked against that very resident, although the proof digests the
\* resident's report only at the end and the flasher reads every file separately while
\* the resident may be rebuilt.  The capsule is one a correct checker accepts, even if
\* the checker was wrong to begin with or is replaced by a wrong one: one rebuild, at
\* any point, does not get a bad capsule through the corrupt copy and the second run.
\* And the report it came with names the sources both were compiled from.
AcceptedIsProven ==
  /\ flash.pc = "accepted" =>
       /\ flash.elf.mode = "checkpoint" /\ flash.capsule.for = flash.elf.n
       /\ \E a \in Attempts : /\ proof[a].pc = "passed"
                              /\ proof[a].capsule = flash.capsule /\ proof[a].elf = flash.elf
       /\ checker.n <= 1 => flash.capsule.good
  /\ PassedIsOneTree
=============================================================================
