------------------------------ MODULE MCBuilds ------------------------------
(***************************************************************************)
(* The tools that build, package, check and publish: DevBuild,             *)
(* PackageRelease, ManagedBuild, StatefulProof and ResidentExport.  They   *)
(* work in different directories, so they are checked side by side, one    *)
(* per behaviour.  DevBuild's variables rest in their initial state while  *)
(* another part runs (PackageRelease uses them); variables that only other *)
(* parts have keep the value None.                                         *)
(***************************************************************************)
EXTENDS DevBuild, TLC

CONSTANTS Commands, None

VARIABLES
  part,
  pack, directory, archive,                                   \* PackageRelease
  sources, record, capsule, elf, uf2, resident,               \* several
  src, sketch, inputs, receipt, res, last, module, mod, use,
  composite, board,                                           \* ManagedBuild
  checker, artifacts, builder, proof, consumer,               \* StatefulProof
  commits, building, job, out                                 \* ResidentExport

\* A build may run while a release is packaged.
Release == INSTANCE PackageRelease WITH
  Exclusive <- FALSE, Packagers <- Commands, Inputs <- <<"application">>,
  MaxEdits <- 1, MaxBuilds <- 2

Both == {{"elf", "uf2"}}

\* Residents built through managed_profile.py, whose compiler may export anything;
\* and a board with residents built directly.
Managed == INSTANCE ManagedBuild WITH
  Profile <- TRUE, Exports <- SUBSET {"elf", "uf2"}, MaxEdits <- 1, MaxBuilds <- 2,
  Exclusive <- TRUE
Direct == INSTANCE ManagedBuild WITH
  Profile <- FALSE, Exports <- Both, MaxEdits <- 1, MaxBuilds <- 2, Exclusive <- TRUE

\* One file of each inventory and one that is in both.
Proofs == INSTANCE StatefulProof WITH
  Attempts <- Commands, Modes <- {"upload", "checkpoint"},
  ProofSources <- {"stateful_counter.ino", "abi.h"},
  ResidentSources <- {"resident.ino", "abi.h"},
  MaxEdits <- 1, MaxBuilds <- 2, MaxRebuilds <- 1,
  tree <- sources, report <- record, flash <- consumer

Exports == INSTANCE ResidentExport WITH
  Publishers <- Commands, Kinds <- {"export_resident", "export_stateful"},
  Modes <- {"legacy", "upload", "checkpoint"}, Apis <- {1}, MaxEdits <- 1, MaxBuilds <- 2,
  tree <- sources, report <- record
Composites == INSTANCE ResidentExport WITH
  Publishers <- Commands, Kinds <- {"compose_initial", "compose_stateful_initial"},
  Modes <- {"legacy", "upload"}, Apis <- {1, 2}, MaxEdits <- 0, MaxBuilds <- 2,
  tree <- sources, report <- record

packed == <<pack, directory, archive>>
managed == <<src, sketch, inputs, receipt, res, last, module, mod, use, composite, board>>
proved == <<checker, artifacts, builder, proof, consumer>>
exported == <<commits, building, job, out>>

NoPack == pack = None /\ directory = None /\ archive = None
NoManaged ==
  /\ src = None /\ sketch = None /\ inputs = None /\ receipt = None /\ res = None
  /\ last = None /\ module = None /\ mod = None /\ use = None /\ composite = None
  /\ board = None
NoProofs ==
  checker = None /\ artifacts = None /\ builder = None /\ proof = None /\ consumer = None
NoExports == commits = None /\ building = None /\ job = None /\ out = None

MCInit ==
  \/ /\ part = "dev" /\ Init /\ NoPack /\ NoManaged /\ NoProofs /\ NoExports
     /\ sources = None /\ record = None /\ capsule = None /\ elf = None /\ uf2 = None
     /\ resident = None
  \/ /\ part = "release" /\ Release!PackInit /\ NoManaged /\ NoProofs /\ NoExports
     /\ sources = None /\ record = None /\ capsule = None /\ elf = None /\ uf2 = None
     /\ resident = None
  \/ /\ part \in {"managed", "direct"} /\ Managed!Init
     /\ Init /\ tree.agree /\ NoPack /\ NoProofs /\ NoExports
     /\ sources = None /\ record = None
  \/ /\ part = "proofs" /\ Proofs!Init
     /\ Init /\ tree.agree /\ NoPack /\ NoManaged /\ NoExports
     /\ elf = None /\ uf2 = None
  \/ /\ part \in {"exports", "composites"}
     /\ Init /\ tree.agree /\ NoPack /\ NoManaged /\ NoProofs /\ resident = None
     /\ IF part = "exports" THEN Exports!Init ELSE Composites!Init

shared == <<sources, record, capsule, elf, uf2, resident>>

MCNext ==
  /\ UNCHANGED part
  /\ \/ /\ part = "dev" /\ Next
        /\ UNCHANGED <<packed, shared, managed, proved, exported>>
     \/ /\ part = "release" /\ Release!PackNext
        /\ UNCHANGED <<shared, managed, proved, exported>>
     \/ /\ part = "managed" /\ Managed!Next
        /\ UNCHANGED <<vars, packed, sources, record, proved, exported>>
     \/ /\ part = "direct" /\ Direct!Next
        /\ UNCHANGED <<vars, packed, sources, record, proved, exported>>
     \/ /\ part = "proofs" /\ Proofs!Next
        /\ UNCHANGED <<vars, packed, elf, uf2, managed, exported>>
     \/ /\ part = "exports" /\ Exports!Next
        /\ UNCHANGED <<vars, packed, resident, managed, proved>>
     \/ /\ part = "composites" /\ Composites!Next
        /\ UNCHANGED <<vars, packed, resident, managed, proved>>

MCSpec ==
  MCInit /\ [][MCNext]_<<part, vars, packed, shared, managed, proved, exported>>

\* What package_release.py publishes is verified (see PackageRelease).
ReleasedImagesAreVerified == part = "release" => Release!ReleasedImagesAreVerified

\* A failed managed build leaves no older success (see ManagedBuild).
FailureLeavesNoOlderSuccess == part = "managed" => Managed!FailureLeavesNoOlderSuccess

\* A board holds a sketch that was built for its resident (see ManagedBuild).
BoundToResident == part = "direct" => Direct!BoundToResident

\* What checked_inputs accepts is what a proof checked (see StatefulProof).
AcceptedIsProven == part = "proofs" => Proofs!AcceptedIsProven

\* What the exporters and composers publish is one build (see ResidentExport).
ExportIsOneBuild ==
  /\ part = "exports" => Exports!ExportIsOneBuild
  /\ part = "composites" => Composites!ExportIsOneBuild

CommandSymmetry == Permutations(Commands)
=============================================================================
