--------------------------- MODULE PackageRelease ---------------------------
(***************************************************************************)
(* tools/package_release.py beside the build of DevBuild: collect verifies *)
(* every input, the images are staged in a temporary directory, and two    *)
(* renames publish the release directory and then its archive.  Packagers  *)
(* may run at the same time as each other and as a build, and may be       *)
(* killed.                                                                 *)
(***************************************************************************)
EXTENDS DevBuild, Sequences

CONSTANTS
  Packagers,  \* package commands, each run once
  Inputs      \* the selected profiles, in the order collect visits them

VARIABLES
  pack,       \* pack[k]: a package command
  directory,  \* dist/firmingo-<version>
  archive     \* dist/firmingo-<version>.zip

releaseVars == <<pack, directory, archive>>
allVars == <<vars, releaseVars>>

\* collected: the reports collect returned.  files: the manifest's entries.
Fresh == [pc |-> "begin", collected |-> <<>>, files |-> <<>>, copied |-> NoImage]
NoRelease == <<>>

PackInit ==
  /\ Init
  /\ pack = [k \in Packagers |-> Fresh]
  /\ directory = NoRelease
  /\ archive = NoRelease

Set(k, p) == pack' = [pack EXCEPT ![k] = p]
Stop(k) == Set(k, [pack[k] EXCEPT !.pc = "failed"])
Here(k, pc) == pack[k].pc = pc /\ UNCHANGED vars

\* current_version: version.h and library.properties name one version.
Agreement == tree.agree

\* ... then the refusal to overwrite.
Begin(k) ==
  /\ Here(k, "begin")
  /\ IF Agreement /\ directory = NoRelease /\ archive = NoRelease
     THEN Set(k, [pack[k] EXCEPT !.pc = "collect"])
     ELSE Stop(k)
  /\ UNCHANGED <<directory, archive>>

\* collect: report and board settings, source hashes, then budgets and the image.
CollectReport(k) ==
  LET p == Inputs[Len(pack[k].collected) + 1]
  IN /\ Here(k, "collect")
     /\ IF Accepts(report[p]) /\ report[p].src = tree.src
        THEN Set(k, [pack[k] EXCEPT !.pc = "image", !.collected = Append(@, report[p])])
        ELSE Stop(k)
     /\ UNCHANGED <<directory, archive>>

CollectImage(k) ==
  LET n == Len(pack[k].collected)
  IN /\ Here(k, "image")
     /\ IF image[Inputs[n]] # pack[k].collected[n].image THEN Stop(k)
        ELSE Set(k, [pack[k] EXCEPT !.pc = IF n = Len(Inputs) THEN "copy" ELSE "collect"])
     /\ UNCHANGED <<directory, archive>>

StageBlindly(k) ==
  LET n == Len(pack[k].files) + 1
  IN /\ Here(k, "copy")
     /\ image[Inputs[n]] # NoImage
     /\ Set(k, [pack[k] EXCEPT !.pc = "entry", !.copied = image[Inputs[n]]])
     /\ UNCHANGED <<directory, archive>>

\* copyfile, and the digest of the copy against the collected report.
Stage(k) ==
  LET n == Len(pack[k].files) + 1
  IN /\ Here(k, "copy")
     /\ IF image[Inputs[n]] = pack[k].collected[n].image
        THEN Set(k, [pack[k] EXCEPT !.pc = "entry", !.copied = image[Inputs[n]]])
        ELSE Stop(k)
     /\ UNCHANGED <<directory, archive>>

\* The manifest entry; report.json is read again for build_report_sha256.
Entry(k) ==
  LET n == Len(pack[k].files) + 1
      entry == [image |-> pack[k].copied, collected |-> pack[k].collected[n],
                report |-> report[Inputs[n]], owner |-> k]
  IN /\ Here(k, "entry")
     /\ Set(k, [pack[k] EXCEPT !.pc = IF n = Len(Inputs) THEN "directory" ELSE "copy",
                               !.files = Append(@, entry)])
     /\ UNCHANGED <<directory, archive>>

\* stage.rename(destination): a directory that is there already is not empty, so
\* the rename fails and the command ends without touching it.
PublishDirectory(k) ==
  /\ Here(k, "directory")
  /\ IF directory = NoRelease
     THEN /\ directory' = pack[k].files
          /\ Set(k, [pack[k] EXCEPT !.pc = "archive"])
     ELSE UNCHANGED directory /\ Stop(k)
  /\ UNCHANGED archive

\* archive.rename; when it fails the directory just published is removed.
PublishArchive(k) ==
  /\ Here(k, "archive")
  /\ \/ archive' = pack[k].files /\ UNCHANGED directory
        /\ Set(k, [pack[k] EXCEPT !.pc = "done"])
     \/ directory' = NoRelease /\ UNCHANGED archive /\ Stop(k)

KillPackage(k) ==
  /\ pack[k].pc \notin {"begin", "done", "failed", "killed"}
  /\ Set(k, [pack[k] EXCEPT !.pc = "killed"])
  /\ UNCHANGED <<vars, directory, archive>>

Package(k) ==
  \/ Begin(k) \/ CollectReport(k) \/ CollectImage(k) \/ Stage(k) \/ Entry(k)
  \/ PublishDirectory(k) \/ PublishArchive(k) \/ KillPackage(k)

PackNext ==
  \/ (Edit \/ Build) /\ UNCHANGED releaseVars
  \/ \E k \in Packagers : Package(k)

PackSpec == PackInit /\ [][PackNext]_allVars

----------------------------------------------------------------------------
(* Properties *)

Published == {directory[n] : n \in DOMAIN directory} \cup {archive[n] : n \in DOMAIN archive}

\* An archive is never there without the directory it was made from, and only a
\* killed command leaves a directory without its archive: the order of the two
\* renames, and the removal of the directory when the second fails.
PublishedTogether ==
  /\ archive # NoRelease => archive = directory
  /\ directory # NoRelease /\ archive = NoRelease
       => pack[directory[1].owner].pc \in {"archive", "killed"}

\* Every published image is complete, is the one its build report vouched for
\* when collect read it, and was compiled from the sources collect compared,
\* even when a build replaces images and reports while the package is assembled;
\* and directory and archive are published together.
Verified(entry) ==
  /\ Accepts(entry.collected)
  /\ entry.image = entry.collected.image
  /\ entry.image.whole
  /\ entry.image.src = entry.collected.src

ReleasedImagesAreVerified == (\A entry \in Published : Verified(entry)) /\ PublishedTogether

\* collect visits at least one profile, each with an output directory.
Selected == Inputs \in Seq(Profiles) /\ Inputs # <<>>

\* Type of the commands and of what they published.
Item == [image : Image, collected : Report, report : Report, owner : Packagers]
PackState ==
  [pc : {"begin", "collect", "image", "copy", "entry", "directory", "archive", "done",
         "failed", "killed"},
   collected : Seq(Report), files : Seq(Item), copied : Image]
PackTypeOK ==
  /\ pack \in [Packagers -> PackState]
  /\ directory \in Seq(Item)
  /\ archive \in Seq(Item)

\* Why that holds (DevBuildProofs shows that Assembly is inductive).  A command k
\* has collected only reports that were true when it compared their hashes with the
\* checkout, its manifest lists only images that match them, and while it is between
\* its two renames the directory is its own and there is no archive.
Holds(rep) == Accepts(rep) /\ rep.image.whole /\ rep.image.src = rep.src

Counts(k) ==
  LET collected == Len(pack[k].collected)
      filed == Len(pack[k].files)
  IN /\ pack[k].pc \in {"begin", "collect"} => collected < Len(Inputs) /\ filed = 0
     /\ pack[k].pc = "image" => collected \in 1 .. Len(Inputs) /\ filed = 0
     /\ pack[k].pc \in {"copy", "entry"} => collected = Len(Inputs) /\ filed < Len(Inputs)
     /\ pack[k].pc \in {"directory", "archive"} => filed = Len(Inputs)

Assembled(k) ==
  /\ Counts(k)
  /\ \A n \in 1 .. Len(pack[k].collected) : Holds(pack[k].collected[n])
  /\ \A n \in 1 .. Len(pack[k].files) :
       Verified(pack[k].files[n]) /\ pack[k].files[n].owner = k
  /\ pack[k].pc = "entry" => pack[k].copied = pack[k].collected[Len(pack[k].files) + 1].image

Assembly ==
  /\ \A k \in Packagers :
       /\ Assembled(k)
       /\ pack[k].pc = "archive" => directory = pack[k].files /\ archive = NoRelease
  /\ ReleasedImagesAreVerified
=============================================================================
