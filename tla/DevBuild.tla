------------------------------ MODULE DevBuild ------------------------------
(***************************************************************************)
(* tools/dev.py build and flash, and their twins in tools/pico_peer.py:    *)
(* what a build report on disk says about the UF2 beside it, and what      *)
(* flash may conclude from the two.  Sources are edited at any moment,     *)
(* also while the compiler runs; a command may be killed between any two   *)
(* of its file operations.                                                 *)
(*                                                                         *)
(* A version of the source tree is a number, fresh with each edit, and     *)
(* stands for the SHA-256 of the hashed files.  An image is the version it *)
(* was compiled from, the build that exported it and whether the export    *)
(* is complete; together they stand for its SHA-256.                       *)
(***************************************************************************)
EXTENDS Naturals

CONSTANTS
  Profiles,   \* output directories under build/firmware/<board>/
  Peer,       \* the profile that pico_peer.py builds
  MaxEdits,   \* bound on source edits
  MaxBuilds,  \* bound on builds
  Exclusive   \* the developer runs one command at a time

ASSUME BuildAssumption == MaxEdits \in Nat /\ MaxBuilds \in Nat /\ Exclusive \in BOOLEAN

VARIABLES
  tree,       \* the checkout: version, and whether library.properties agrees
  serial,     \* builds started
  image,      \* image[p]: artifacts/*.ino.uf2
  report,     \* report[p]: report.json
  build,      \* the build command
  flash,      \* the flash command
  volume      \* FIRMINGO.UF2 on the bootloader volume, with flash's evidence

buildVars == <<serial, image, report, build>>
vars == <<tree, buildVars, flash, volume>>

NoImage == [src |-> 0, by |-> 0, whole |-> FALSE]
NoReport == [status |-> "none", src |-> 0, image |-> NoImage]
Idle == [pc |-> "idle", profile |-> Peer, src |-> 0, built |-> 0, found |-> NoImage,
         ok |-> FALSE]
Ready == [pc |-> "idle", profile |-> Peer, rep |-> NoReport]
NoCopy == [image |-> NoImage, rep |-> NoReport]

Init ==
  /\ tree \in [src : {0}, agree : BOOLEAN]
  /\ serial = 0
  /\ image = [p \in Profiles |-> NoImage]
  /\ report = [p \in Profiles |-> NoReport]
  /\ build = Idle
  /\ flash = Ready
  /\ volume = NoCopy

\* An editor saves a hashed file; version.h is one, so it may part from
\* library.properties, which is not hashed.
Edit ==
  /\ tree.src < MaxEdits
  /\ tree' \in [src : {tree.src + 1}, agree : BOOLEAN]
  /\ UNCHANGED <<buildVars, flash, volume>>

----------------------------------------------------------------------------
(* build *)

Goto(pc) == build' = [build EXCEPT !.pc = pc]
End == build' = Idle

\* Manifest, baseline and toolchain checks and the USB overlay: a failure there
\* returns before anything modelled here changes.
Start(p) ==
  /\ build.pc = "idle" /\ serial < MaxBuilds
  /\ Exclusive => flash.pc = "idle"
  /\ serial' = serial + 1
  /\ build' = [Idle EXCEPT !.pc = "clean", !.profile = p]
  /\ UNCHANGED <<tree, image, report, flash, volume>>

\* "Remove only stale exported images": rmtree(artifacts).
Clean ==
  /\ build.pc = "clean"
  /\ image' = [image EXCEPT ![build.profile] = NoImage]
  /\ Goto("hash")
  /\ UNCHANGED <<tree, serial, report, flash, volume>>

\* source_sha256, taken before the compiler starts.  An unreadable file raises
\* outside the try block: no report is written.
HashSources ==
  /\ build.pc = "hash"
  /\ \/ build' = [build EXCEPT !.pc = "compile", !.src = tree.src]
     \/ End
  /\ UNCHANGED <<tree, serial, image, report, flash, volume>>

\* arduino-cli reads the sources.
Compile ==
  /\ build.pc = "compile"
  /\ build' = [build EXCEPT !.pc = "export", !.built = tree.src]
  /\ UNCHANGED <<tree, serial, image, report, flash, volume>>

\* It writes the images into --output-dir, which takes a while.
Export ==
  /\ build.pc = "export"
  /\ LET this == [src |-> build.built, by |-> serial, whole |-> FALSE]
     IN \/ /\ image[build.profile] # this
           /\ image' = [image EXCEPT ![build.profile] = this]
           /\ UNCHANGED build
        \/ /\ image[build.profile] = this
           /\ image' = [image EXCEPT ![build.profile].whole = TRUE]
           /\ Goto("digest")
  /\ UNCHANGED <<tree, serial, report, flash, volume>>

DigestThenHash ==
  /\ build.pc = "digest"
  /\ build' = [build EXCEPT !.pc = "open", !.found = image[build.profile],
                            !.src = tree.src, !.ok = TRUE]
  /\ UNCHANGED <<tree, serial, image, report, flash, volume>>

\* The artifacts' digests, then the size summary and, but for the peer fixture,
\* the board's memory budgets.
Digest ==
  /\ build.pc = "digest"
  /\ \E within \in BOOLEAN :
       build' = [build EXCEPT !.pc = "open", !.found = image[build.profile],
                              !.ok = within \/ build.profile = Peer]
  /\ UNCHANGED <<tree, serial, image, report, flash, volume>>

\* A compiler error, a timeout, a missing summary or an interrupt.
Raise ==
  /\ build.pc \in {"compile", "export", "digest"}
  /\ Goto("open")
  /\ UNCHANGED <<tree, serial, image, report, flash, volume>>

\* The finally clause: write_text truncates the old report, then writes.
WriteReport ==
  \/ /\ build.pc = "open"
     /\ report' = [report EXCEPT ![build.profile] = [NoReport EXCEPT !.status = "torn"]]
     /\ Goto("write")
     /\ UNCHANGED <<tree, serial, image, flash, volume>>
  \/ /\ build.pc = "write"
     /\ report' = [report EXCEPT ![build.profile] =
                     [status |-> IF build.ok THEN "compile-tested" ELSE "failed",
                      src |-> build.src, image |-> build.found]]
     /\ End
     /\ UNCHANGED <<tree, serial, image, flash, volume>>

KillBuild ==
  /\ build.pc # "idle"
  /\ End
  /\ UNCHANGED <<tree, serial, image, report, flash, volume>>

\* pico_peer.py build: the same order of removal, hashes, compiler, digests and
\* report, in its own directory and without memory budgets.
PeerBuild == Peer \in Profiles /\ Start(Peer)

Build ==
  \/ \E p \in Profiles \ {Peer} : Start(p)
  \/ PeerBuild
  \/ Clean \/ HashSources \/ Compile \/ Export \/ Digest \/ Raise \/ WriteReport \/ KillBuild

----------------------------------------------------------------------------
(* flash *)

\* What flash and package ask of a report before they look at anything else.
Accepts(rep) == rep.status = "compile-tested"

\* A ROM bootloader is mounted and a successful report is there.
ReadReport(p) ==
  /\ flash.pc = "idle"
  /\ Exclusive => build.pc = "idle"
  /\ Accepts(report[p])
  /\ flash' = [pc |-> "sources", profile |-> p, rep |-> report[p]]
  /\ UNCHANGED <<tree, buildVars, volume>>

\* "source changed since build; rebuild first", "UF2 hash does not match".
CheckSources ==
  /\ flash.pc = "sources"
  /\ flash' = IF tree.src = flash.rep.src THEN [flash EXCEPT !.pc = "image"] ELSE Ready
  /\ UNCHANGED <<tree, buildVars, volume>>

SkipImage ==
  /\ flash.pc = "image"
  /\ flash' = [flash EXCEPT !.pc = "copy"]
  /\ UNCHANGED <<tree, buildVars, volume>>

CheckImage ==
  /\ flash.pc = "image"
  /\ flash' = IF image[flash.profile] = flash.rep.image
              THEN [flash EXCEPT !.pc = "copy"] ELSE Ready
  /\ UNCHANGED <<tree, buildVars, volume>>

\* The image is opened again and copied to the volume; a file that is gone, or
\* a volume that goes away, ends the command.
Copy ==
  /\ flash.pc = "copy"
  /\ flash' = Ready
  /\ \/ /\ image[flash.profile] # NoImage
        /\ volume' = [image |-> image[flash.profile], rep |-> flash.rep]
     \/ UNCHANGED volume
  /\ UNCHANGED <<tree, buildVars>>

\* pico_peer.py flash is the same command with its own report and image.
PeerFlash == Peer \in Profiles /\ ReadReport(Peer)

Flash ==
  \/ \E p \in Profiles \ {Peer} : ReadReport(p)
  \/ PeerFlash
  \/ CheckSources \/ CheckImage \/ Copy

Next == Edit \/ Build \/ Flash
Spec == Init /\ [][Next]_vars

----------------------------------------------------------------------------
(* Properties *)

Image == [src : 0 .. MaxEdits, by : 0 .. MaxBuilds, whole : BOOLEAN]
Report == [status : {"none", "torn", "failed", "compile-tested"}, src : 0 .. MaxEdits,
           image : Image]

BuildState ==
  [pc : {"idle", "clean", "hash", "compile", "export", "digest", "open", "write"},
   profile : Profiles \cup {Peer}, src : 0 .. MaxEdits, built : 0 .. MaxEdits,
   found : Image, ok : BOOLEAN]
FlashState ==
  [pc : {"idle", "sources", "image", "copy"}, profile : Profiles \cup {Peer}, rep : Report]

\* Type invariant: every command is between two of its own steps.
TypeOK ==
  /\ tree \in [src : 0 .. MaxEdits, agree : BOOLEAN]
  /\ serial \in 0 .. MaxBuilds
  /\ image \in [Profiles -> Image]
  /\ report \in [Profiles -> Report]
  /\ build \in BuildState
  /\ flash \in FlashState
  /\ volume \in [image : Image, rep : Report]
  /\ build.pc # "idle" => build.profile \in Profiles
  /\ flash.pc # "idle" => flash.profile \in Profiles

\* A successful report whose hashes are those of the checkout (the question flash
\* and package ask) lists a complete image, compiled from the checkout as it is:
\* hashing before the compiler starts makes an edit during the build show up as a
\* changed source, whatever was killed or failed before.
CurrentReportIsTrue ==
  \A p \in Profiles :
    Accepts(report[p]) /\ report[p].src = tree.src
      => /\ report[p].image.whole
         /\ report[p].image.src = tree.src

\* flash copies to the board only the image that its report lists, which is whole,
\* passed its build's checks and was compiled from the very sources that flash
\* compared.  docs/local-only-network.md: flash checks "build report, current source
\* hashes and UF2 hash, then copies only that verified image".
CopiesVerifiedImage ==
  /\ volume.image = volume.rep.image
  /\ volume # NoCopy => /\ Accepts(volume.rep)
                        /\ volume.image.src = volume.rep.src
                        /\ volume.image.whole

\* Why the two hold (DevBuildProofs shows that Sound is inductive): versions only
\* grow, so hashes taken before the compiler starts are at most the version it
\* reads, and that is at most the version a later check reads.
Bounded(version, found) ==
  found.whole /\ version <= found.src /\ found.src <= tree.src

Sound ==
  /\ build.pc = "compile" => build.src <= tree.src
  /\ build.pc = "export" => build.src <= build.built /\ build.built <= tree.src
  /\ build.pc = "digest" => Bounded(build.src, image[build.profile])
  /\ build.ok => build.pc \in {"open", "write"} /\ Bounded(build.src, build.found)
  /\ \A p \in Profiles : Accepts(report[p]) => Bounded(report[p].src, report[p].image)

Traced ==
  /\ flash.pc # "idle" =>
       /\ Accepts(flash.rep)
       /\ Bounded(flash.rep.src, flash.rep.image)
       /\ Exclusive => build.pc = "idle"
  /\ flash.pc \in {"image", "copy"} => flash.rep.image.src = flash.rep.src
  /\ flash.pc = "copy" /\ Exclusive => image[flash.profile] = flash.rep.image

=============================================================================
