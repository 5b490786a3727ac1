---------------------------- MODULE ManagedBuild ----------------------------
(***************************************************************************)
(* The tools that build the managed resident and what runs on it:          *)
(* build_resident.py alone or under tools/managed_profile.py,              *)
(* build_module.py, then build_composite.py, upload.py and flash_initial.py*)
(* which combine a resident and a capsule on the word of two reports.      *)
(*                                                                         *)
(* The files outlive the commands that write them; a command may fail at   *)
(* each of its checks or be killed, and sources are edited throughout.  A  *)
(* version number stands for the hashes of the sources, a build number for *)
(* the hash of what that build wrote.  A report cut short by a kill does   *)
(* not parse and counts as none.                                           *)
(***************************************************************************)
EXTENDS Naturals

CONSTANTS
  MaxEdits,   \* bound on edits
  MaxBuilds,  \* bound on resident builds and on module builds
  Profile,    \* residents are built through managed_profile.py
  Exports,    \* which of the two artifacts a successful compile may export
  Exclusive   \* the developer runs one command at a time

VARIABLES
  src, sketch, inputs, \* versions: resident sources, module sources, profile inputs
  elf, uf2, resident, \* the resident's artifacts and its report.json
  receipt,            \* profile-report.json
  res, last,          \* the resident build, and how the last one ended
  capsule, module,    \* <sketch>.fms and its report.json
  mod,                \* the module build
  use,                \* the consumer of both
  composite, board    \* the composite image, and what the board's flash holds

tree == <<src, sketch, inputs>>
resVars == <<elf, uf2, resident, receipt, res, last>>
modVars == <<capsule, module, mod>>
useVars == <<use, composite, board>>
vars == <<tree, resVars, modVars, useVars>>

Nothing == [by |-> 0, src |-> 0]
NoReport == [ok |-> FALSE, by |-> 0, src |-> 0, elf |-> Nothing, uf2 |-> Nothing]
NoReceipt == [ok |-> FALSE, by |-> 0, report |-> NoReport]
NoCapsule == [by |-> 0, api |-> 0]
NoModule == [ok |-> FALSE, src |-> 0, elf |-> Nothing, capsule |-> NoCapsule]
Resting == [pc |-> "idle", by |-> 0, inputs |-> 0, built |-> 0, found |-> NoReport]
Waiting == [pc |-> "idle", by |-> 0, api |-> 0]
Unused == [pc |-> "idle", job |-> "compose", resident |-> NoReport, module |-> NoModule, capsule |-> NoCapsule]
Blank == [uf2 |-> 0, api |-> 0]

Init ==
  /\ src = 0 /\ sketch = 0 /\ inputs = 0
  /\ elf = Nothing /\ uf2 = Nothing /\ resident = NoReport /\ receipt = NoReceipt
  /\ res = Resting /\ last = "none"
  /\ capsule = NoCapsule /\ module = NoModule /\ mod = Waiting
  /\ use = Unused /\ composite = Blank /\ board = Blank

\* A file may be an input of several tools (abi.h, baseline.json).
Edit ==
  /\ src + sketch + inputs < MaxEdits
  /\ src' \in {src, src + 1} /\ sketch' \in {sketch, sketch + 1}
  /\ inputs' \in {inputs, inputs + 1}
  /\ UNCHANGED <<resVars, modVars, useVars>>

Alone(others) == Exclusive => \A p \in others : p.pc = "idle"

----------------------------------------------------------------------------
(* build_resident.py, and managed_profile.py around it *)

At(pc) == res.pc = pc /\ UNCHANGED <<tree, modVars, useVars>>
Goto(pc) == res' = [res EXCEPT !.pc = pc]
Fail == res' = [Resting EXCEPT !.by = res.by] /\ last' = "failed"

\* The receipt records failure before any other work.
Start ==
  /\ At("idle") /\ res.by < MaxBuilds
  /\ Alone({mod, use})
  /\ res' = [Resting EXCEPT !.pc = IF Profile THEN "invalidate" ELSE "check",
                            !.by = res.by + 1]
  /\ receipt' = IF Profile THEN [NoReceipt EXCEPT !.by = res.by + 1] ELSE receipt
  /\ UNCHANGED <<elf, uf2, resident, last>>

InvalidateNothing ==
  /\ At("invalidate")
  /\ Goto("hash")
  /\ UNCHANGED <<elf, uf2, resident, receipt, last>>

\* "Invalidate an earlier resident success even if setup fails".
Invalidate ==
  /\ At("invalidate")
  /\ resident' = NoReport
  /\ Goto("hash")
  /\ UNCHANGED <<elf, uf2, receipt, last>>

\* Input hashes, the pinned toolchain and the USB overlay.
Setup ==
  /\ At("hash")
  /\ \/ res' = [res EXCEPT !.pc = "clean", !.inputs = inputs] /\ UNCHANGED last
     \/ Fail
  /\ UNCHANGED <<elf, uf2, resident, receipt>>

\* "never reuse an older exported image".
Clean ==
  /\ At("clean")
  /\ elf' = Nothing /\ uf2' = Nothing
  /\ Goto("check")
  /\ UNCHANGED <<resident, receipt, last>>

\* build_resident.py starts with the CLI's version and the installed core.
CheckToolchain ==
  /\ At("check")
  /\ \/ Goto("unlink") /\ UNCHANGED last
     \/ Fail
  /\ UNCHANGED <<elf, uf2, resident, receipt>>

\* "A failed rebuild must never leave an older successful report behind."
Unlink ==
  /\ At("unlink")
  /\ resident' = NoReport
  /\ Goto("compile")
  /\ UNCHANGED <<elf, uf2, receipt, last>>

Compile ==
  /\ At("compile")
  /\ res' = [res EXCEPT !.pc = "export", !.built = src]
  /\ UNCHANGED <<elf, uf2, resident, receipt, last>>

\* A compile that fails may have exported either file.
Export ==
  LET this == [by |-> res.by, src |-> res.built]
      Exported(files) ==
        /\ elf' = IF "elf" \in files THEN this ELSE elf
        /\ uf2' = IF "uf2" \in files THEN this ELSE uf2
  IN /\ At("export")
     /\ \/ (\E files \in Exports : Exported(files)) /\ Goto("digest") /\ UNCHANGED last
        \/ (\E files \in SUBSET {"elf", "uf2"} : Exported(files)) /\ Fail
     /\ UNCHANGED <<resident, receipt>>

\* Size budgets, both files present, the core-1 park function in RAM; then the
\* digests of the artifacts and, last, of the sources.
Digest ==
  /\ At("digest")
  /\ \/ /\ elf # Nothing /\ uf2 # Nothing
        /\ res' = [res EXCEPT !.pc = "report",
                              !.found = [ok |-> TRUE, by |-> res.by, src |-> src,
                                         elf |-> elf, uf2 |-> uf2]]
        /\ UNCHANGED last
     \/ Fail
  /\ UNCHANGED <<elf, uf2, resident, receipt>>

WriteReport ==
  /\ At("report")
  /\ resident' = res.found
  /\ IF Profile THEN Goto("verify") /\ UNCHANGED last
     ELSE res' = [Resting EXCEPT !.by = res.by] /\ last' = "passed"
  /\ UNCHANGED <<elf, uf2, receipt>>

\* verify_outputs: the report, every recorded source against the checkout, both
\* artifacts against the report, the API table, and the UF2 against the ELF.
VerifyOutputs ==
  /\ At("verify")
  /\ IF resident.ok /\ resident.src = src /\ elf = resident.elf /\ uf2 = resident.uf2
         /\ elf = uf2
     THEN res' = [res EXCEPT !.pc = "inputs", !.found = resident] /\ UNCHANGED last
     ELSE Fail
  /\ UNCHANGED <<elf, uf2, resident, receipt>>

\* "managed profile input changed during build"; then the receipt.
WriteReceipt ==
  /\ At("inputs")
  /\ IF inputs = res.inputs
     THEN /\ receipt' = [ok |-> TRUE, by |-> res.by, report |-> res.found]
          /\ res' = [Resting EXCEPT !.by = res.by] /\ last' = "passed"
     ELSE Fail /\ UNCHANGED receipt
  /\ UNCHANGED <<elf, uf2, resident>>

KillResident ==
  /\ res.pc # "idle"
  /\ res' = [Resting EXCEPT !.by = res.by] /\ last' = "killed"
  /\ UNCHANGED <<tree, modVars, useVars, elf, uf2, resident, receipt>>

Resident ==
  \/ Start \/ Invalidate \/ Setup \/ Clean \/ CheckToolchain \/ Unlink \/ Compile \/ Export
  \/ Digest \/ WriteReport \/ VerifyOutputs \/ WriteReceipt \/ KillResident

----------------------------------------------------------------------------
(* build_module.py *)

AtModule(pc) == mod.pc = pc /\ UNCHANGED <<tree, resVars, useVars>>

\* The capsule is compiled against the API address of the resident's ELF.
ReadApi ==
  /\ AtModule("idle") /\ mod.by < MaxBuilds
  /\ elf # Nothing
  /\ Alone({res, use})
  /\ mod' = [pc |-> "compile", by |-> mod.by + 1, api |-> elf.by]
  /\ UNCHANGED <<capsule, module>>

\* Compile, link, size and entry checks, then the .fms; the old report stays.
WriteCapsule ==
  /\ AtModule("compile")
  /\ \/ /\ capsule' = [by |-> mod.by, api |-> mod.api]
        /\ mod' = [mod EXCEPT !.pc = "report"]
     \/ /\ mod' = [mod EXCEPT !.pc = "idle"]
        /\ UNCHANGED capsule
  /\ UNCHANGED module

\* Only now are the resident's ELF and the sources hashed.
WriteModuleReport ==
  /\ AtModule("report")
  /\ \/ module' = [ok |-> TRUE, src |-> sketch, elf |-> elf,
                   capsule |-> [by |-> mod.by, api |-> mod.api]]
     \/ module' = NoModule
  /\ mod' = [mod EXCEPT !.pc = "idle"]
  /\ UNCHANGED capsule

KillModule ==
  /\ AtModule(mod.pc) /\ mod.pc # "idle"
  /\ mod' = [mod EXCEPT !.pc = "idle"]
  /\ UNCHANGED <<capsule, module>>

Module == ReadApi \/ WriteCapsule \/ WriteModuleReport \/ KillModule

----------------------------------------------------------------------------
(* build_composite.py, flash_initial.py and upload.py *)

AtUse(pc) == use.pc = pc /\ UNCHANGED <<tree, resVars, modVars>>

\* Both reports are read once.
ReadReports(job) ==
  /\ AtUse("idle")
  /\ resident.ok /\ module.ok
  /\ Alone({res, mod})
  /\ use' = [Unused EXCEPT !.pc = "verify", !.job = job,
                            !.resident = resident, !.module = module]
  /\ UNCHANGED <<composite, board>>

Jobs == {"compose", "flash", "upload"}

SameSources == use.resident.src = src /\ use.module.src = sketch
SameArtifacts == elf = use.resident.elf /\ uf2 = use.resident.uf2
SameCapsule == capsule = use.module.capsule
AnyResident == use.module.ok
BuiltForResident == use.module.elf = use.resident.elf
Refuse == use' = Unused /\ UNCHANGED <<composite, board>>

\* checked_capsule sees only that the capsule's own header is consistent.
Verify ==
  /\ AtUse("verify")
  /\ IF SameSources /\ SameArtifacts /\ BuiltForResident /\ SameCapsule
     THEN /\ use' = [use EXCEPT !.pc = use.job, !.capsule = capsule]
          /\ UNCHANGED <<composite, board>>
     ELSE Refuse

\* The composite takes the UF2 from the disk again.
Compose ==
  /\ AtUse("compose")
  /\ composite' = [uf2 |-> uf2.by, api |-> use.capsule.api]
  /\ use' = Unused /\ UNCHANGED board

\* The ROM's identity is compared before the load; a load or verify that fails
\* leaves a partly written flash, which is not rebooted into.
Picotool(img) == {board, Blank, img}

\* flash_initial regenerates the composite and installs it only when it still
\* is the reviewed one.
FlashInitial ==
  LET again == [uf2 |-> uf2.by, api |-> use.capsule.api]
  IN /\ AtUse("flash")
     /\ composite' = again
     /\ board' \in IF again = composite THEN Picotool(again) ELSE {board}
     /\ use' = Unused

\* The operator names the resident the board was flashed with; the board
\* may refuse the capsule.
Upload ==
  /\ AtUse("upload")
  /\ board' \in {board} \cup (IF board.uf2 # 0 /\ use.resident.uf2.by = board.uf2
                            THEN {[board EXCEPT !.api = use.capsule.api]} ELSE {})
  /\ use' = Unused /\ UNCHANGED composite

Use == (\E job \in Jobs : ReadReports(job)) \/ Verify \/ Compose \/ FlashInitial \/ Upload

Next == Edit \/ Resident \/ Module \/ Use
Spec == Init /\ [][Next]_vars

----------------------------------------------------------------------------

\* managed_profile.py:88-105: a receipt of success is the last build's own, and
\* the images it names were compiled by that build, ELF and UF2 alike, even
\* when a compile exports nothing or earlier builds left files behind.
ReceiptIsThisBuild ==
  receipt.ok =>
    /\ receipt.by = res.by
    /\ receipt.report.elf = receipt.report.uf2
    /\ receipt.report.by = res.by /\ receipt.report.elf.by = res.by

\* build_resident.py:84: "A failed rebuild must never leave an older successful
\* report behind"; nor may a failed profile build leave a receipt of success, and
\* a receipt there is speaks of the last build.
FailureLeavesNoOlderSuccess ==
  /\ last = "failed" /\ res.pc = "idle" =>
       /\ resident.ok => resident.by = res.by
       /\ ~receipt.ok
  /\ ReceiptIsThisBuild

\* build_composite.py:98-100 "module was not built for this resident": a board
\* that holds a resident and a sketch holds one compiled against that
\* resident's API table.
BoundToResident == board.api = board.uf2
=============================================================================
