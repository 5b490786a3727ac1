--------------------------- MODULE ResidentExport ---------------------------
(***************************************************************************)
(* The tools that publish from a resident's build directory into a new     *)
(* directory: export_resident.py and export_stateful.py (compiler inputs,  *)
(* tied to a commit), compose_initial.py and compose_stateful_initial.py   *)
(* (a first flash image, tied to hashes the operator selected).            *)
(*                                                                         *)
(* Inputs are read one at a time while the resident and the capsule are    *)
(* rebuilt, the tree is edited and committed, and a report may be edited   *)
(* by hand.  Several publishers may be given one output directory; each    *)
(* may be killed between two files.                                        *)
(***************************************************************************)
EXTENDS Naturals, Sequences

CONSTANTS
  Publishers,  \* commands
  Kinds,       \* which tools they run
  Modes,       \* residents that are built: "legacy", "upload", "checkpoint"
  Apis,        \* addresses a build may give the API table
  MaxEdits,    \* bound on edits of the tree
  MaxBuilds    \* bound on resident builds

VARIABLES
  tree,        \* versions of the resident's sources and of the export tools
  commits,     \* commits[c]: the tree of commit c
  elf, uf2,    \* the artifacts on disk
  report,      \* the resident's report.json
  building,    \* where build_resident.py is
  capsule,     \* the capsule on disk: the API address it is linked to
  job,         \* job[p]: a publisher
  out          \* files of the output directory, in the order they were written

inputs == <<tree, commits, elf, uf2, report, building, capsule>>
vars == <<inputs, job, out>>

NoBuild == [n |-> 0, mode |-> "none", api |-> 0]
NoReport == [mode |-> "none", src |-> 0, elf |-> 0, uf2 |-> 0]
New(k) == [kind |-> k, pc |-> "begin", commit |-> 1, report |-> NoReport, elf |-> NoBuild,
           uf2 |-> NoBuild, pin |-> NoBuild, api |-> 0, pick |-> 0, capsule |-> 0]

Init ==
  /\ tree = [source |-> 0, tool |-> 0] /\ commits = <<tree>>
  /\ elf = NoBuild /\ uf2 = NoBuild /\ report = NoReport /\ building = "no"
  /\ capsule = 0
  /\ job \in [Publishers -> {New(k) : k \in Kinds}]
  /\ out = <<>>

----------------------------------------------------------------------------
(* The surroundings *)

Edit ==
  /\ tree.source + tree.tool < MaxEdits
  /\ \/ tree' = [tree EXCEPT !.source = @ + 1]
     \/ tree' = [tree EXCEPT !.tool = @ + 1]
  /\ UNCHANGED <<commits, elf, uf2, report, building, capsule, job, out>>

Commit ==
  /\ commits[Len(commits)] # tree
  /\ commits' = Append(commits, tree)
  /\ UNCHANGED <<tree, elf, uf2, report, building, capsule, job, out>>

\* build_resident.py: the report goes, the ELF and the UF2 are exported one after the
\* other, and the new report names both and the sources as they are then.  It may fail
\* in between.
Build ==
  /\ \/ /\ building = "no" /\ elf.n < MaxBuilds
        /\ \E m \in Modes, a \in Apis : elf' = [n |-> elf.n + 1, mode |-> m, api |-> a]
        /\ report' = NoReport /\ building' = "uf2" /\ UNCHANGED uf2
     \/ /\ building = "uf2"
        /\ uf2' = elf /\ building' = "report" /\ UNCHANGED <<elf, report>>
     \/ /\ building = "report"
        /\ report' = [mode |-> elf.mode, src |-> tree.source, elf |-> elf.n, uf2 |-> uf2.n]
        /\ building' = "no" /\ UNCHANGED <<elf, uf2>>
     \/ building # "no" /\ building' = "no" /\ UNCHANGED <<elf, uf2, report>>
  /\ UNCHANGED <<tree, commits, capsule, job, out>>

\* A module build against the resident on disk.
Link ==
  /\ elf.n > 0 /\ capsule' = elf.api
  /\ UNCHANGED <<tree, commits, elf, uf2, report, building, job, out>>

\* A report is relabeled by hand.
Relabel ==
  /\ report # NoReport
  /\ \E m \in Modes : report' = [report EXCEPT !.mode = m]
  /\ UNCHANGED <<tree, commits, elf, uf2, building, capsule, job, out>>

----------------------------------------------------------------------------
(* The exporters *)

At(p, pc) == job[p].pc = pc /\ UNCHANGED inputs
Set(p, j) == job' = [job EXCEPT ![p] = j]
Require(p, ok, j) == Set(p, IF ok THEN j ELSE [job[p] EXCEPT !.pc = "failed"])
Is(p, kinds) == job[p].kind \in kinds
Exporters == {"export_resident", "export_stateful"}
Composers == {"compose_initial", "compose_stateful_initial"}

SelectedMode(k) == IF k = "export_resident" THEN "legacy" ELSE "upload"

\* The report: its status and, against the selected commit's blobs, its inventory.
ReadReport(p) ==
  /\ At(p, "begin") /\ Is(p, Exporters)
  /\ \E c \in DOMAIN commits :
       Require(p, report.mode = SelectedMode(job[p].kind) /\ report.src = commits[c].source,
               [job[p] EXCEPT !.pc = "elf", !.commit = c, !.report = report])
  /\ UNCHANGED out

ReadElf(p) ==
  /\ At(p, "elf") /\ Set(p, [job[p] EXCEPT !.pc = "uf2", !.elf = elf])
  /\ UNCHANGED out

\* Mutant: the UF2's digest is not looked at.
ElfReported(j, u) == j.elf.n = j.report.elf

Reported(j, u) == j.elf.n = j.report.elf /\ u.n = j.report.uf2

\* export_stateful reads the markers of the ELF itself.
StatefulFacts(j) == j.kind = "export_stateful" => j.elf.mode = "upload"

ReadUf2(p) ==
  /\ At(p, "uf2")
  /\ Require(p, Reported(job[p], uf2) /\ StatefulFacts(job[p]),
             [job[p] EXCEPT !.pc = "tools", !.uf2 = uf2])
  /\ UNCHANGED out

\* Only export_stateful insists on the commit's own tools.
CheckTools(p) ==
  /\ At(p, "tools")
  /\ Require(p, Is(p, {"export_stateful"}) => tree.tool = commits[job[p].commit].tool,
             [job[p] EXCEPT !.pc = "mkdir"])
  /\ UNCHANGED out

----------------------------------------------------------------------------
(* The composers *)

\* The operator selects a UF2, an API address and a capsule, each as reviewed at some
\* moment.
Select(p) ==
  /\ Is(p, Composers) /\ UNCHANGED <<inputs, out>>
  /\ \/ job[p].pc = "begin" /\ uf2.n > 0 /\ Set(p, [job[p] EXCEPT !.pc = "address", !.pin = uf2])
     \/ job[p].pc = "address" /\ elf.n > 0 /\ Set(p, [job[p] EXCEPT !.pc = "pick", !.api = elf.api])
     \/ job[p].pc = "pick" /\ capsule > 0 /\ Set(p, [job[p] EXCEPT !.pc = "resident", !.pick = capsule])

PinnedResident(p) == Require(p, uf2 = job[p].pin, [job[p] EXCEPT !.pc = "capsule", !.uf2 = uf2])

PinnedCapsule(p) ==
  Require(p, capsule = job[p].pick, [job[p] EXCEPT !.pc = "compose", !.capsule = capsule])

ReadPinned(p) ==
  /\ \/ At(p, "resident") /\ PinnedResident(p)
     \/ At(p, "capsule") /\ PinnedCapsule(p)
  /\ UNCHANGED out

\* The capsule is bound to the selected address; for FMS2 the table must be there in
\* the UF2's own bytes, which a legacy resident does not have.
Bound(j) == j.capsule = j.api

InResident(j) == j.uf2.api = j.api /\ j.uf2.mode # "legacy"

Compose(p) ==
  /\ At(p, "compose")
  /\ Require(p, Bound(job[p]) /\ (Is(p, {"compose_stateful_initial"}) => InResident(job[p])),
             [job[p] EXCEPT !.pc = "mkdir"])
  /\ UNCHANGED out

----------------------------------------------------------------------------
(* Publishing: a new directory, then the files, the manifest or report last *)

Plan(k) == IF k \in Exporters THEN <<"elf", "uf2", "report", "manifest">>
           ELSE <<"initial", "report">>

Written(p) == SelectSeq(out, LAMBDA f : f.by = p /\ f.name # "directory")

File(p, name) == [by |-> p, name |-> name]

Mkdir(p) ==
  IF out = <<>> THEN Set(p, [job[p] EXCEPT !.pc = "write"]) /\ out' = <<File(p, "directory")>>
  ELSE Require(p, FALSE, job[p]) /\ UNCHANGED out

MakeDirectory(p) == At(p, "mkdir") /\ Mkdir(p)

\* open("xb") for exports, write_bytes for composites.
Write(p) ==
  LET plan == Plan(job[p].kind)
      n == Len(Written(p)) + 1
  IN /\ At(p, "write")
     /\ IF n > Len(plan)
        THEN Set(p, [job[p] EXCEPT !.pc = "done"]) /\ UNCHANGED out
        ELSE out' = Append(out, File(p, plan[n])) /\ UNCHANGED job

Kill(p) ==
  /\ job[p].pc \notin {"begin", "failed", "killed", "done"} /\ UNCHANGED <<inputs, out>>
  /\ Set(p, [job[p] EXCEPT !.pc = "killed"])

Publish(p) == \/ ReadReport(p) \/ ReadElf(p) \/ ReadUf2(p) \/ CheckTools(p)
              \/ Select(p) \/ ReadPinned(p) \/ Compose(p)
              \/ MakeDirectory(p) \/ Write(p) \/ Kill(p)

Next == Edit \/ Commit \/ Build \/ Link \/ Relabel \/ \E p \in Publishers : Publish(p)

Spec == Init /\ [][Next]_vars

----------------------------------------------------------------------------
(* Properties *)

Published(p) == \E i \in DOMAIN out : out[i] = File(p, "directory")
Has(p, name) == \E i \in DOMAIN out : out[i] = File(p, name)

\* Everything in a directory is one command's, and its manifest (a composite's report)
\* means that everything is there: what a killed command leaves cannot be mistaken for
\* an export, and two commands given one directory never mix their files.
ManifestMeansComplete ==
  /\ \A i, j \in DOMAIN out : out[i].by = out[j].by
  /\ \A p \in Publishers :
       /\ Is(p, Exporters) /\ Has(p, "manifest") => \A f \in {"elf", "uf2", "report"} : Has(p, f)
       /\ Is(p, Composers) /\ Has(p, "report") => Has(p, "initial")

\* compose_stateful_initial.py validates each paired resident and capsule: the image
\* holds a resident whose own API table is the one the capsule calls, even if the two
\* inputs were selected at different times or rebuilt since.
CompositeFits ==
  \A p \in Publishers :
    Published(p) /\ Is(p, {"compose_stateful_initial"}) =>
      job[p].uf2.api = job[p].capsule /\ job[p].uf2 = job[p].pin

\* export_resident: publishes only after every source and artifact check has succeeded.
\* Whatever of an export reaches the directory is one build's ELF and UF2 and
\* the report of that build, whose inventory is the selected commit's, although the
\* resident may be rebuilt between the reads; export_stateful.py rejects fault images
\* even if a report is relabeled as normal (docs/integration/
\* flash-checkpoint-qualification.md); a composite fits; and a manifest means that
\* everything is there.
ExportIsOneBuild ==
  /\ \A p \in Publishers : Published(p) /\ Is(p, Exporters) =>
       /\ job[p].elf = job[p].uf2 /\ job[p].elf.n = job[p].report.elf
       /\ job[p].report.src = commits[job[p].commit].source
       /\ Is(p, {"export_stateful"}) => job[p].elf.mode # "checkpoint"
  /\ CompositeFits /\ ManifestMeansComplete
=============================================================================
