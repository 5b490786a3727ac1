--------------------------- MODULE DevBuildProofs ---------------------------
(***************************************************************************)
(* What a build report is worth, for every set of profiles and any number  *)
(* of edits, builds and kills: the invariants of DevBuild, proved from     *)
(* Sound and Traced; and what a release contains, for any number of        *)
(* packaging commands beside the builds: PackageRelease, from Assembly.    *)
(***************************************************************************)
EXTENDS PackageRelease, TLAPS

\* The initial files and commands are well typed.
LEMMA Blanks ==
  /\ NoImage \in Image
  /\ NoReport \in Report
  /\ [NoReport EXCEPT !.status = "torn"] \in Report
  /\ Idle \in BuildState
  /\ Ready \in FlashState
<1> USE BuildAssumption DEF BuildAssumption
<1>1. NoImage \in Image
  BY DEF NoImage, Image
<1>2. NoReport \in Report /\ [NoReport EXCEPT !.status = "torn"] \in Report
  BY <1>1 DEF NoReport, Report
<1>3. Idle \in BuildState
  BY <1>1 DEF Idle, BuildState
<1>4. Ready \in FlashState
  BY <1>2 DEF Ready, FlashState
<1>5. QED
  BY <1>1, <1>2, <1>3, <1>4

\* Goto moves the build command and changes nothing else of it.
LEMMA GotoKeeps ==
  ASSUME build \in BuildState, NEW c, Goto(c)
  PROVE /\ build'.pc = c
        /\ build'.profile = build.profile
        /\ build'.src = build.src
        /\ build'.found = build.found
        /\ build'.ok = build.ok
  BY DEF Goto, BuildState

\* Every step of build and flash leaves well-typed files and commands.
LEMMA TypeStep == TypeOK /\ [Next]_vars => TypeOK'
<1> SUFFICES ASSUME TypeOK, [Next]_vars PROVE TypeOK'
  OBVIOUS
<1> USE BuildAssumption, Blanks DEF BuildAssumption
<1>1. CASE Edit
  BY <1>1 DEF TypeOK, Edit, buildVars
<1>2. ASSUME NEW p \in Profiles, Start(p) PROVE TypeOK'
  <2>1. build' \in BuildState
    BY <1>2, Zenon DEF Start, Idle, BuildState
  <2>2. QED
    BY <1>2, <2>1 DEF TypeOK, Start, Idle
<1>3. CASE Clean
  BY <1>3 DEF TypeOK, Clean, Goto, BuildState
<1>4. CASE HashSources
  BY <1>4, Zenon DEF TypeOK, HashSources, End, Idle, BuildState
<1>5. CASE Compile
  BY <1>5, Zenon DEF TypeOK, Compile, BuildState
<1>6. CASE Export
  <2> DEFINE this == [src |-> build.built, by |-> serial, whole |-> FALSE]
  <2>1. this \in Image /\ \A i \in Image : [i EXCEPT !.whole = TRUE] \in Image
    BY Zenon DEF TypeOK, BuildState, Image
  <2>2. image' \in [Profiles -> Image]
    BY <1>6, <2>1 DEF TypeOK, Export
  <2>3. build' \in BuildState /\ build'.profile = build.profile
    BY <1>6 DEF TypeOK, Export, Goto, BuildState
  <2>4. QED
    BY <1>6, <2>2, <2>3 DEF TypeOK, Export
<1>7. CASE Digest
  BY <1>7, ZenonT(30) DEF TypeOK, Digest, BuildState
<1>8. CASE Raise
  BY <1>8 DEF TypeOK, Raise, Goto, BuildState
<1>9. CASE WriteReport
  <2>1. CASE build.pc = "open"
    <3>1. build' \in BuildState /\ build'.profile = build.profile
      BY <1>9, <2>1 DEF TypeOK, WriteReport, Goto, BuildState
    <3>2. report' \in [Profiles -> Report]
      BY <1>9, <2>1 DEF TypeOK, WriteReport
    <3>3. QED
      BY <1>9, <2>1, <3>1, <3>2 DEF TypeOK, WriteReport
  <2>2. CASE build.pc = "write"
    <3> DEFINE rep == [status |-> IF build.ok THEN "compile-tested" ELSE "failed",
                       src |-> build.src, image |-> build.found]
    <3>0. rep \in Report
      BY DEF TypeOK, BuildState, Report
    <3>a. report' = [report EXCEPT ![build.profile] = rep]
      BY <1>9, <2>2 DEF WriteReport
    <3> HIDE DEF rep
    <3>1. report' \in [Profiles -> Report]
      BY <3>0, <3>a, Zenon DEF TypeOK
    <3>2. build' = Idle /\ UNCHANGED <<tree, serial, image, flash, volume>>
      BY <1>9, <2>2 DEF WriteReport, End
    <3>3. QED
      BY <3>1, <3>2 DEF TypeOK, Idle
  <2>3. QED
    BY <1>9, <2>1, <2>2 DEF WriteReport
<1>10. CASE KillBuild
  BY <1>10 DEF TypeOK, KillBuild, End, Idle
<1>11. ASSUME NEW p \in Profiles, ReadReport(p) PROVE TypeOK'
  BY <1>11 DEF TypeOK, ReadReport, buildVars, Ready, FlashState
<1>12. CASE CheckSources
  BY <1>12 DEF TypeOK, CheckSources, buildVars, Ready, FlashState
<1>13. CASE CheckImage
  BY <1>13 DEF TypeOK, CheckImage, buildVars, Ready, FlashState
<1>14. CASE Copy
  BY <1>14 DEF TypeOK, Copy, buildVars, Ready, FlashState
<1>15. CASE UNCHANGED vars
  BY <1>15 DEF TypeOK, vars, buildVars
<1>16. QED
  BY <1>1, <1>2, <1>3, <1>4, <1>5, <1>6, <1>7, <1>8, <1>9, <1>10, <1>11, <1>12, <1>13,
     <1>14, <1>15 DEF Next, Build, Flash, PeerBuild, PeerFlash

\* Sound is inductive: an edit only raises the version, and a build compares its
\* hashes with nothing younger than what the compiler read.
LEMMA SoundStep == TypeOK /\ Sound /\ [Next]_vars => Sound'
<1> SUFFICES ASSUME TypeOK, Sound, [Next]_vars PROVE Sound'
  OBVIOUS
<1> USE BuildAssumption DEF BuildAssumption
<1>t. /\ tree.src \in Nat /\ build.src \in Nat /\ build.built \in Nat
      /\ build.found.src \in Nat
      /\ \A p \in Profiles : /\ image[p].src \in Nat
                            /\ report[p].src \in Nat /\ report[p].image.src \in Nat
  BY DEF TypeOK, BuildState, Report, Image
<1>1. CASE Edit
  <2>1. tree'.src = tree.src + 1 /\ UNCHANGED buildVars
    BY <1>1 DEF Edit
  <2>2. \A n \in Nat : n <= tree.src => n <= tree'.src
    BY <2>1, <1>t
  <2>3. build.pc = "digest" => image[build.profile].src \in Nat
    BY <1>t DEF TypeOK
  <2>4. QED
    BY <1>t, <2>1, <2>2, <2>3 DEF Sound, Bounded, buildVars, Accepts
<1>2. ASSUME NEW p \in Profiles, Start(p) PROVE Sound'
  BY <1>2 DEF Sound, Bounded, Start, Idle, Accepts
<1>3. CASE Clean
  BY <1>3, GotoKeeps DEF Sound, Bounded, Clean, Accepts, TypeOK
<1>4. CASE HashSources
  <2>1. CASE End
    BY <1>4, <2>1 DEF Sound, Bounded, HashSources, End, Idle, Accepts
  <2>2. CASE build' = [build EXCEPT !.pc = "compile", !.src = tree.src]
    <3>1. build'.pc = "compile" /\ build'.src = tree.src /\ build'.ok = build.ok
      BY <2>2 DEF TypeOK, BuildState
    <3>2. ~build.ok
      BY <1>4 DEF TypeOK, HashSources, Sound
    <3>3. QED
      BY <1>4, <1>t, <3>1, <3>2 DEF Sound, Bounded, HashSources, Accepts
  <2>3. QED
    BY <1>4, <2>1, <2>2 DEF HashSources
<1>5. CASE Compile
  BY <1>5, <1>t DEF Sound, Bounded, Compile, Accepts, TypeOK, BuildState
<1>6. CASE Export
  <2> DEFINE this == [src |-> build.built, by |-> serial, whole |-> FALSE]
  <2>1. CASE image[build.profile] # this
    BY <1>6, <2>1 DEF Sound, Bounded, Export, Accepts
  <2>2. CASE image[build.profile] = this
    <3>1. /\ image'[build.profile] = [this EXCEPT !.whole = TRUE]
          /\ Goto("digest")
          /\ UNCHANGED <<tree, report>>
      BY <1>6, <2>2 DEF Export, TypeOK
    <3>2. QED
      BY <1>6, <3>1, GotoKeeps DEF Export, Sound, Bounded, Accepts, TypeOK
  <2>3. QED
    BY <2>1, <2>2
<1>7. CASE Digest
  BY <1>7 DEF Sound, Bounded, Digest, Accepts, TypeOK, BuildState
<1>8. CASE Raise
  BY <1>8, GotoKeeps DEF Sound, Bounded, Raise, Accepts, TypeOK
<1>9. CASE WriteReport
  <2>1. CASE build.pc = "open"
    <3>1. \A p \in Profiles : Accepts(report[p])' => report'[p] = report[p]
      BY <1>9, <2>1 DEF WriteReport, NoReport, Accepts, TypeOK
    <3>2. QED
      BY <1>9, <2>1, <3>1, GotoKeeps DEF Sound, Bounded, WriteReport, Accepts, TypeOK
  <2>2. CASE build.pc = "write"
    <3>1. \A p \in Profiles : Accepts(report[p])' =>
             \/ report'[p] = report[p]
             \/ build.ok /\ report'[p].src = build.src /\ report'[p].image = build.found
      BY <1>9, <2>2 DEF WriteReport, Accepts, TypeOK
    <3>2. QED
      BY <1>9, <2>2, <3>1 DEF Sound, Bounded, WriteReport, End, Idle, Accepts
  <2>3. QED
    BY <1>9, <2>1, <2>2 DEF WriteReport
<1>10. CASE KillBuild
  BY <1>10 DEF Sound, Bounded, KillBuild, End, Idle, Accepts
<1>11. CASE UNCHANGED <<tree, buildVars>>
  BY <1>11 DEF Sound, Bounded, buildVars, Accepts
<1>12. QED
  BY <1>1, <1>2, <1>3, <1>4, <1>5, <1>6, <1>7, <1>8, <1>9, <1>10, <1>11
     DEF Next, Build, Flash, PeerBuild, PeerFlash, ReadReport, CheckSources, CheckImage, Copy,
         vars

\* Traced is inductive: a flash that started alone stays alone, so the image it
\* digested is the image it opens.
LEMMA TracedStep == TypeOK /\ Sound /\ Traced /\ [Next]_vars => Traced'
<1> SUFFICES ASSUME TypeOK, Sound, Traced, [Next]_vars PROVE Traced'
  OBVIOUS
<1> USE BuildAssumption DEF BuildAssumption
<1>t. tree.src \in Nat /\ flash.rep.src \in Nat /\ flash.rep.image.src \in Nat
  BY DEF TypeOK, FlashState, Report, Image
<1>1. CASE Edit
  <2>1. tree'.src = tree.src + 1 /\ UNCHANGED <<buildVars, flash>>
    BY <1>1 DEF Edit
  <2>2. QED
    BY <1>t, <2>1 DEF Traced, Bounded, Accepts, buildVars
<1>2. CASE Build
  <2>1. UNCHANGED <<tree, flash>>
    BY <1>2, Zenon DEF Build, PeerBuild, Start, Clean, HashSources, Compile, Export, Digest, Raise,
      WriteReport, KillBuild
  <2>2. CASE flash.pc = "idle"
    BY <2>1, <2>2 DEF Traced
  <2>3. CASE flash.pc # "idle" /\ Exclusive
    BY <1>2, <2>3, Zenon DEF Traced, Build, PeerBuild, Start, Clean, HashSources, Compile, Export,
      Digest, Raise, WriteReport, KillBuild
  <2>4. CASE flash.pc # "idle" /\ ~Exclusive
    BY <2>1, <2>4 DEF Traced, Bounded, Accepts
  <2>5. QED
    BY <2>2, <2>3, <2>4
<1>3. ASSUME NEW p \in Profiles, ReadReport(p) PROVE Traced'
  BY <1>3 DEF ReadReport, Traced, Sound, Bounded, Accepts, buildVars
<1>4. CASE CheckSources
  <2>1. CASE tree.src = flash.rep.src
    <3>1. /\ flash' = [flash EXCEPT !.pc = "image"]
          /\ UNCHANGED <<tree, buildVars>>
      BY <1>4, <2>1 DEF CheckSources
    <3>2. flash'.pc = "image" /\ flash'.rep = flash.rep
      BY <3>1 DEF TypeOK, FlashState
    <3>3. QED
      BY <1>4, <1>t, <2>1, <3>1, <3>2 DEF CheckSources, Traced, Bounded, Accepts, buildVars
  <2>2. CASE tree.src # flash.rep.src
    BY <1>4, <2>2 DEF CheckSources, Traced, Ready
  <2>3. QED
    BY <2>1, <2>2
<1>5. CASE CheckImage
  <2>1. CASE image[flash.profile] = flash.rep.image
    <3>1. /\ flash' = [flash EXCEPT !.pc = "copy"]
          /\ UNCHANGED <<tree, buildVars>>
      BY <1>5, <2>1 DEF CheckImage
    <3>2. flash'.pc = "copy" /\ flash'.rep = flash.rep /\ flash'.profile = flash.profile
      BY <3>1 DEF TypeOK, FlashState
    <3>3. QED
      BY <1>5, <2>1, <3>1, <3>2 DEF CheckImage, Traced, Bounded, Accepts, buildVars
  <2>2. CASE image[flash.profile] # flash.rep.image
    BY <1>5, <2>2 DEF CheckImage, Traced, Ready
  <2>3. QED
    BY <2>1, <2>2
<1>6. CASE Copy
  BY <1>6 DEF Copy, Traced, Ready
<1>7. CASE UNCHANGED vars
  BY <1>7 DEF vars, buildVars, Traced, Bounded, Accepts
<1>8. QED
  BY <1>1, <1>2, <1>3, <1>4, <1>5, <1>6, <1>7 DEF Next, Flash, PeerFlash

----------------------------------------------------------------------------
(* Theorems *)

\* The files and commands of build and flash stay well typed.
THEOREM Typed == Spec => []TypeOK
<1>1. Init => TypeOK
  BY Blanks, BuildAssumption DEF Init, TypeOK, NoCopy, Idle, Ready, BuildAssumption
<1>2. QED
  BY <1>1, TypeStep, PTL DEF Spec

\* The inductive invariant of the reports: hashes are never younger than the image.
THEOREM Soundness == Spec => []Sound
<1>1. Init => Sound
  BY DEF Init, Sound, Idle, NoReport, Accepts
<1>2. QED
  BY <1>1, Typed, SoundStep, PTL DEF Spec

\* A successful report whose hashes match the checkout lists a complete image of
\* that checkout (dev.build takes source_sha256 before it starts the compiler).
THEOREM ReportsAreTrue == Spec => []CurrentReportIsTrue
<1>1. TypeOK /\ Sound => CurrentReportIsTrue
  <2> SUFFICES ASSUME TypeOK, Sound, NEW p \in Profiles,
                      Accepts(report[p]), report[p].src = tree.src
               PROVE report[p].image.whole /\ report[p].image.src = tree.src
    BY DEF CurrentReportIsTrue
  <2>1. tree.src \in Nat /\ report[p].image.src \in Nat
    BY BuildAssumption DEF TypeOK, Report, Image, BuildAssumption
  <2>2. Bounded(tree.src, report[p].image)
    BY DEF Sound
  <2>3. QED
    BY <2>1, <2>2 DEF Bounded
<1>2. QED
  BY <1>1, Typed, Soundness, PTL

\* When commands run one at a time, flash copies the image its report lists, which
\* was compiled from the sources flash compared with that report.
THEOREM FlashCopiesVerified ==
  ASSUME Exclusive
  PROVE Spec => []CopiesVerifiedImage
<1>1. Init => CopiesVerifiedImage /\ Traced
  BY DEF Init, CopiesVerifiedImage, NoCopy, NoReport, Traced, Ready
<1>2. TypeOK /\ Traced /\ CopiesVerifiedImage /\ [Next]_vars => CopiesVerifiedImage'
  <2> SUFFICES ASSUME TypeOK, Traced, CopiesVerifiedImage, [Next]_vars
               PROVE CopiesVerifiedImage'
    OBVIOUS
  <2>1. CASE Copy
    BY <2>1 DEF Copy, Traced, Bounded, CopiesVerifiedImage, Accepts, NoCopy
  <2>2. CASE UNCHANGED volume
    BY <2>2 DEF CopiesVerifiedImage, Accepts
  <2>3. QED
    BY <2>1, <2>2, Zenon DEF Next, Edit, Build, PeerBuild, Start, Clean, HashSources, Compile, Export,
      Digest, Raise, WriteReport, KillBuild, Flash, PeerFlash, ReadReport, CheckSources,
      CheckImage, vars
<1>3. QED
  BY <1>1, <1>2, Typed, Soundness, TracedStep, PTL DEF Spec

----------------------------------------------------------------------------
(* package_release.py *)

\* A command's record is replaced as a whole, and no other command's.
LEMMA SetOne ==
  ASSUME PackTypeOK, NEW k \in Packagers, NEW p \in PackState, Set(k, p)
  PROVE /\ pack' \in [Packagers -> PackState]
        /\ pack'[k] = p
        /\ \A j \in Packagers \ {k} : pack'[j] = pack[j] /\ (Assembled(j) => Assembled(j)')
<1>1. /\ pack' \in [Packagers -> PackState]
      /\ pack'[k] = p
      /\ \A j \in Packagers \ {k} : pack'[j] = pack[j]
  BY ZenonT(30) DEF PackTypeOK, Set
<1>2. ASSUME NEW j \in Packagers \ {k}, Assembled(j) PROVE Assembled(j)'
  <2>1. pack'[j] = pack[j]
    BY <1>1
  <2>2. QED
    BY <1>2, <2>1 DEF Assembled, Counts, Holds, Verified, Accepts
<1>3. QED
  BY <1>1, <1>2

\* What a command knows of its own record.
LEMMA Own ==
  ASSUME PackTypeOK, Selected, NEW k \in Packagers
  PROVE /\ pack[k] \in PackState
        /\ pack[k].collected \in Seq(Report) /\ Len(pack[k].collected) \in Nat
        /\ pack[k].files \in Seq(Item) /\ Len(pack[k].files) \in Nat
        /\ Inputs \in Seq(Profiles) /\ Len(Inputs) \in Nat /\ Len(Inputs) > 0
        /\ \A n \in 1 .. Len(Inputs) : Inputs[n] \in Profiles
<1>1. pack[k] \in PackState
  BY DEF PackTypeOK
<1>2. pack[k].collected \in Seq(Report) /\ pack[k].files \in Seq(Item)
  BY <1>1 DEF PackState
<1>3. QED
  BY <1>1, <1>2 DEF Selected

\* A step that moves one command within its own record keeps Assembly when it
\* keeps that command's part of it and the command is not publishing.
LEMMA Private ==
  ASSUME PackTypeOK, Assembly, NEW k \in Packagers, NEW p \in PackState, Set(k, p),
         UNCHANGED <<directory, archive>>, Assembled(k)',
         pack[k].pc # "archive" \/ p.pc = "killed", p.pc # "archive",
         pack[k].pc # "killed"
  PROVE PackTypeOK' /\ Assembly'
<1>1. /\ pack' \in [Packagers -> PackState]
      /\ pack'[k] = p
      /\ \A j \in Packagers \ {k} : pack'[j] = pack[j] /\ (Assembled(j) => Assembled(j)')
  BY SetOne
<1>2. PackTypeOK'
  BY <1>1 DEF PackTypeOK
<1>3. \A j \in Packagers :
        /\ Assembled(j)'
        /\ pack'[j].pc = "archive" => directory' = pack'[j].files /\ archive' = NoRelease
  BY <1>1 DEF Assembly, NoRelease
<1>4. PublishedTogether'
  <2>1. PublishedTogether
    BY DEF Assembly, ReleasedImagesAreVerified
  <2>2. CASE directory # NoRelease /\ archive = NoRelease
    <3>a. directory \in Seq(Item) /\ directory # <<>>
      BY <2>2 DEF PackTypeOK, NoRelease
    <3>b. directory[1] \in Item
      BY <3>a
    <3>1. directory[1].owner \in Packagers
      BY <3>b DEF Item
    <3>2. pack[directory[1].owner].pc \in {"archive", "killed"}
      BY <2>1, <2>2 DEF PublishedTogether
    <3>3. pack'[directory[1].owner].pc \in {"archive", "killed"}
      BY <1>1, <3>1, <3>2
    <3>4. QED
      BY <2>1, <3>3 DEF PublishedTogether
  <2>3. QED
    BY <2>1, <2>2 DEF PublishedTogether
<1>5. ReleasedImagesAreVerified'
  BY <1>4 DEF Assembly, ReleasedImagesAreVerified, Published, Verified, Accepts
<1>6. QED
  BY <1>2, <1>3, <1>5 DEF Assembly

\* A step that only moves a command to another place in the code.
LEMMA Moves ==
  ASSUME PackTypeOK, Selected, Assembly, NEW k \in Packagers,
         NEW c \in {"collect", "copy", "failed", "killed"},
         Set(k, [pack[k] EXCEPT !.pc = c]), UNCHANGED <<directory, archive>>,
         pack[k].pc # "killed", pack[k].pc = "archive" => c = "killed",
         c = "collect" => Len(pack[k].collected) < Len(Inputs) /\ Len(pack[k].files) = 0,
         c = "copy" => /\ Len(pack[k].collected) = Len(Inputs)
                       /\ Len(pack[k].files) < Len(Inputs)
  PROVE PackTypeOK' /\ Assembly'
<1> DEFINE p == [pack[k] EXCEPT !.pc = c]
<1>1. pack[k] \in PackState
  BY Own
<1>2. /\ p \in PackState /\ p.pc = c
      /\ p.collected = pack[k].collected /\ p.files = pack[k].files
  BY <1>1, Zenon DEF PackState
<1>3. pack'[k] = p
  BY <1>2, SetOne
<1> HIDE DEF p
<1>4. Assembled(k)
  BY DEF Assembly
<1>5. Assembled(k)'
  BY <1>2, <1>3, <1>4, SMTT(30) DEF Assembled, Counts, Holds, Verified, Accepts
<1>6. QED
  BY <1>2, <1>5, Private, Zenon DEF p

\* Stop is such a step.
LEMMA Stops ==
  ASSUME PackTypeOK, Selected, Assembly, NEW k \in Packagers, Stop(k),
         UNCHANGED <<directory, archive>>, pack[k].pc \notin {"archive", "killed"}
  PROVE PackTypeOK' /\ Assembly'
  BY Moves, Zenon DEF Stop

\* A report whose hashes are those of the checkout is true of its image, so the
\* reports a command has collected stay true whatever is edited or built later.
LEMMA Collects ==
  ASSUME TypeOK, Sound, PackTypeOK, Selected, Assembly, NEW k \in Packagers, CollectReport(k)
  PROVE PackTypeOK' /\ Assembly'
<1> DEFINE n == Len(pack[k].collected) + 1
           rep == report[Inputs[n]]
           p == [pack[k] EXCEPT !.pc = "image", !.collected = Append(@, rep)]
<1>o. /\ pack[k] \in PackState
      /\ pack[k].collected \in Seq(Report) /\ Len(pack[k].collected) \in Nat
      /\ pack[k].files \in Seq(Item) /\ Len(pack[k].files) \in Nat
      /\ Inputs \in Seq(Profiles) /\ Len(Inputs) \in Nat /\ Len(Inputs) > 0
      /\ \A i \in 1 .. Len(Inputs) : Inputs[i] \in Profiles
  BY Own
<1>a. Assembled(k)
  BY DEF Assembly
<1>1. /\ pack[k].pc = "collect" /\ UNCHANGED <<directory, archive>>
      /\ IF Accepts(rep) /\ rep.src = tree.src THEN Set(k, p) ELSE Stop(k)
  BY DEF CollectReport, Here
<1>2. CASE Stop(k)
  BY <1>1, <1>2, Stops
<1>3. CASE Set(k, p) /\ Accepts(rep) /\ rep.src = tree.src
  <2>1. Len(pack[k].collected) < Len(Inputs) /\ Len(pack[k].files) = 0
    BY <1>1, <1>a DEF Assembled, Counts
  <2>2. Inputs[n] \in Profiles
    BY <1>o, <2>1
  <2>3. rep \in Report
    BY <2>2 DEF TypeOK
  <2>b. Bounded(tree.src, rep.image)
    BY <1>3, <2>2 DEF Sound
  <2> HIDE DEF rep
  <2>4. Holds(rep)
    <3>1. tree.src \in Nat
      BY BuildAssumption DEF TypeOK, BuildAssumption
    <3>2. rep.image.src \in Nat
      BY <2>3, BuildAssumption DEF Report, Image, BuildAssumption
    <3>3. QED
      BY <1>3, <2>b, <3>1, <3>2 DEF Bounded, Holds
  <2>c. Append(pack[k].collected, rep) \in Seq(Report)
    BY <1>o, <2>3
  <2>5. /\ p \in PackState /\ p.pc = "image"
        /\ p.collected = Append(pack[k].collected, rep) /\ p.files = pack[k].files
    BY <1>o, <2>c, Zenon DEF PackState
  <2>6. pack'[k] = p
    BY <1>3, <2>5, SetOne
  <2> HIDE DEF p
  <2>7. /\ Len(p.collected) = n
        /\ \A i \in 1 .. n : p.collected[i] = IF i = n THEN rep ELSE pack[k].collected[i]
    BY <1>o, <2>3, <2>5
  <2>8. \A i \in 1 .. n : Holds(p.collected[i])
    BY <1>a, <1>o, <2>4, <2>7, SMTT(30) DEF Assembled
  <2>9. Assembled(k)'
    <3>1. Counts(k)'
      BY <1>o, <2>1, <2>5, <2>6, <2>7, SMTT(30) DEF Counts
    <3>2. \A i \in 1 .. Len(pack'[k].collected) : Holds(pack'[k].collected[i])
      BY <2>6, <2>7, <2>8
    <3>3. Len(pack'[k].files) = 0 /\ pack'[k].pc = "image" /\ 1 .. 0 = {}
      BY <2>1, <2>5, <2>6
    <3>4. QED
      BY <3>1, <3>2, <3>3 DEF Assembled, Holds, Accepts
  <2>10. QED
    BY <1>1, <1>3, <2>5, <2>9, Private
<1>4. QED
  BY <1>1, <1>2, <1>3

\* The copy is compared with the report collected for it.
LEMMA Stages ==
  ASSUME TypeOK, PackTypeOK, Selected, Assembly, NEW k \in Packagers, Stage(k)
  PROVE PackTypeOK' /\ Assembly'
<1> DEFINE n == Len(pack[k].files) + 1
           i == image[Inputs[n]]
           p == [pack[k] EXCEPT !.pc = "entry", !.copied = i]
<1>o. /\ pack[k] \in PackState
      /\ Len(pack[k].files) \in Nat /\ Len(Inputs) \in Nat
      /\ \A j \in 1 .. Len(Inputs) : Inputs[j] \in Profiles
  BY Own
<1>a. Assembled(k)
  BY DEF Assembly
<1>1. /\ pack[k].pc = "copy" /\ UNCHANGED <<directory, archive>>
      /\ IF i = pack[k].collected[n].image THEN Set(k, p) ELSE Stop(k)
  BY DEF Stage, Here
<1>2. CASE Stop(k)
  BY <1>1, <1>2, Stops
<1>3. CASE Set(k, p) /\ i = pack[k].collected[n].image
  <2>1. Len(pack[k].collected) = Len(Inputs) /\ Len(pack[k].files) < Len(Inputs)
    BY <1>1, <1>a DEF Assembled, Counts
  <2>2. i \in Image
    BY <1>o, <2>1, SMTT(30) DEF TypeOK
  <2> HIDE DEF i
  <2>3. /\ p \in PackState /\ p.pc = "entry" /\ p.copied = i
        /\ p.collected = pack[k].collected /\ p.files = pack[k].files
    BY <1>o, <2>2, Zenon DEF PackState
  <2>4. pack'[k] = p
    BY <1>3, <2>3, SetOne, Zenon
  <2> HIDE DEF p
  <2>5. Assembled(k)'
    <3>1. Counts(k)'
      BY <2>1, <2>3, <2>4 DEF Counts
    <3>2. pack'[k].copied = pack'[k].collected[Len(pack'[k].files) + 1].image
      BY <1>3, <2>3, <2>4
    <3>3. pack'[k].collected = pack[k].collected /\ pack'[k].files = pack[k].files
      BY <2>3, <2>4
    <3>4. QED
      BY <1>a, <3>1, <3>2, <3>3 DEF Assembled, Holds, Verified, Accepts
  <2>6. QED
    BY <1>1, <1>3, <2>3, <2>5, Private
<1>4. QED
  BY <1>1, <1>2, <1>3

\* The manifest entry names the copy and the report it was compared with.
LEMMA Enters ==
  ASSUME TypeOK, PackTypeOK, Selected, Assembly, NEW k \in Packagers, Entry(k)
  PROVE PackTypeOK' /\ Assembly'
<1> DEFINE n == Len(pack[k].files) + 1
           entry == [image |-> pack[k].copied, collected |-> pack[k].collected[n],
                     report |-> report[Inputs[n]], owner |-> k]
           p == [pack[k] EXCEPT !.pc = IF n = Len(Inputs) THEN "directory" ELSE "copy",
                                !.files = Append(@, entry)]
<1>o. /\ pack[k] \in PackState /\ pack[k].collected \in Seq(Report)
      /\ pack[k].files \in Seq(Item) /\ Len(pack[k].files) \in Nat
      /\ Len(Inputs) \in Nat /\ \A j \in 1 .. Len(Inputs) : Inputs[j] \in Profiles
  BY Own
<1>a. Assembled(k)
  BY DEF Assembly
<1>1. pack[k].pc = "entry" /\ UNCHANGED <<directory, archive>> /\ Set(k, p)
  BY DEF Entry, Here
<1>2. Len(pack[k].collected) = Len(Inputs) /\ Len(pack[k].files) < Len(Inputs)
  BY <1>1, <1>a DEF Assembled, Counts
<1>3. entry \in Item
  <2>1. pack[k].copied \in Image /\ pack[k].collected[n] \in Report
    BY <1>o, <1>2 DEF PackState
  <2>2. report[Inputs[n]] \in Report
    BY <1>o, <1>2, SMTT(30) DEF TypeOK
  <2>3. QED
    BY <2>1, <2>2 DEF Item
<1>4. Verified(entry) /\ entry.owner = k
  <2>1. Holds(pack[k].collected[n])
    BY <1>o, <1>2, <1>a, SMTT(30) DEF Assembled
  <2>2. pack[k].copied = pack[k].collected[n].image
    BY <1>1, <1>a DEF Assembled
  <2>3. QED
    BY <2>1, <2>2 DEF Holds, Verified
<1> HIDE DEF entry
<1>s. Append(pack[k].files, entry) \in Seq(Item)
  BY <1>o, <1>3
<1>5. /\ p \in PackState /\ p.pc = (IF n = Len(Inputs) THEN "directory" ELSE "copy")
      /\ p.collected = pack[k].collected /\ p.files = Append(pack[k].files, entry)
  BY <1>o, <1>s, Zenon DEF PackState
<1>6. pack'[k] = p
  BY <1>1, <1>5, SetOne
<1> HIDE DEF p
<1>7. /\ Len(p.files) = n
      /\ \A i \in 1 .. n : p.files[i] = IF i = n THEN entry ELSE pack[k].files[i]
  BY <1>o, <1>3, <1>5
<1>8. \A i \in 1 .. n : Verified(p.files[i]) /\ p.files[i].owner = k
  <2>1. ASSUME NEW i \in 1 .. n PROVE Verified(p.files[i]) /\ p.files[i].owner = k
    <3>1. CASE i = n
      BY <1>4, <1>7, <3>1
    <3>2. CASE i # n
      <4>1. i \in 1 .. Len(pack[k].files)
        BY <1>o, <3>2, SMTT(30)
      <4>2. p.files[i] = pack[k].files[i]
        BY <1>7, <3>2
      <4>3. QED
        BY <1>a, <4>1, <4>2 DEF Assembled
    <3>3. QED
      BY <3>1, <3>2
  <2>2. QED
    BY <2>1
<1>9. Assembled(k)'
  <2>1. Counts(k)'
    BY <1>o, <1>2, <1>5, <1>6, <1>7, SMTT(30) DEF Counts
  <2>2. \A i \in 1 .. Len(pack'[k].files) :
          Verified(pack'[k].files[i]) /\ pack'[k].files[i].owner = k
    BY <1>6, <1>7, <1>8
  <2>3. pack'[k].collected = pack[k].collected /\ pack'[k].pc # "entry"
    BY <1>5, <1>6
  <2>4. QED
    BY <1>a, <2>1, <2>2, <2>3 DEF Assembled, Holds, Verified, Accepts
<1>10. QED
  BY <1>1, <1>5, <1>9, Private

\* The files of a command that is about to publish are its own and are not empty.
LEMMA Complete ==
  ASSUME PackTypeOK, Selected, Assembly, NEW k \in Packagers,
         pack[k].pc \in {"directory", "archive"}
  PROVE /\ pack[k].files \in Seq(Item) /\ pack[k].files # NoRelease
        /\ pack[k].files[1].owner = k
        /\ \A n \in DOMAIN pack[k].files : Verified(pack[k].files[n])
<1>o. pack[k].files \in Seq(Item) /\ Len(Inputs) \in Nat /\ Len(Inputs) > 0
  BY Own
<1>a. Assembled(k)
  BY DEF Assembly
<1>1. Len(pack[k].files) = Len(Inputs)
  BY <1>a DEF Assembled, Counts
<1>2. DOMAIN pack[k].files = 1 .. Len(Inputs) /\ 1 \in 1 .. Len(Inputs)
  BY <1>o, <1>1
<1>3. QED
  BY <1>a, <1>o, <1>1, <1>2 DEF Assembled, NoRelease

\* The first rename: with no directory there is no archive either, and no other
\* command is between its two renames.
LEMMA PublishesDirectory ==
  ASSUME TypeOK, PackTypeOK, Selected, Assembly, NEW k \in Packagers, PublishDirectory(k)
  PROVE PackTypeOK' /\ Assembly'
<1> DEFINE p == [pack[k] EXCEPT !.pc = "archive"]
<1>1. pack[k].pc = "directory" /\ UNCHANGED archive
  BY DEF PublishDirectory, Here
<1>2. CASE UNCHANGED directory /\ Stop(k)
  BY <1>1, <1>2, Stops
<1>3. CASE directory = NoRelease /\ directory' = pack[k].files /\ Set(k, p)
  <2>1. pack[k] \in PackState
    BY Own
  <2>2. /\ p \in PackState /\ p.pc = "archive"
        /\ p.collected = pack[k].collected /\ p.files = pack[k].files
    BY <2>1, Zenon DEF PackState
  <2> HIDE DEF p
  <2>3. /\ pack' \in [Packagers -> PackState]
        /\ pack'[k] = p
        /\ \A j \in Packagers \ {k} : pack'[j] = pack[j] /\ (Assembled(j) => Assembled(j)')
    BY <1>3, <2>2, SetOne
  <2>4. /\ pack[k].files \in Seq(Item) /\ pack[k].files # NoRelease
        /\ pack[k].files[1].owner = k
        /\ \A n \in DOMAIN pack[k].files : Verified(pack[k].files[n])
    BY <1>1, Complete
  <2>5. PackTypeOK'
    BY <1>1, <1>3, <2>3, <2>4 DEF PackTypeOK
  <2>6. archive = NoRelease
    BY <1>3 DEF Assembly, ReleasedImagesAreVerified, PublishedTogether
  <2>7. \A j \in Packagers \ {k} : pack[j].pc # "archive"
    BY <1>3, Complete, Zenon DEF Assembly
  <2>8. Assembled(k)'
    <3>1. Assembled(k)
      BY DEF Assembly
    <3>2. /\ pack'[k].files = pack[k].files /\ pack'[k].collected = pack[k].collected
          /\ pack'[k].pc = "archive"
      BY <2>2, <2>3
    <3>3. Counts(k)'
      BY <1>1, <3>1, <3>2 DEF Assembled, Counts
    <3>4. QED
      BY <3>1, <3>2, <3>3, SMTT(30) DEF Assembled, Holds, Verified, Accepts
  <2>9. \A j \in Packagers :
          /\ Assembled(j)'
          /\ pack'[j].pc = "archive" => directory' = pack'[j].files /\ archive' = NoRelease
    BY <1>1, <1>3, <2>2, <2>3, <2>6, <2>7, <2>8 DEF Assembly, NoRelease
  <2>10. PublishedTogether'
    BY <1>1, <1>3, <2>2, <2>3, <2>4, <2>6 DEF PublishedTogether, NoRelease
  <2>11. \A entry \in Published' : Verified(entry)
    BY <1>1, <1>3, <2>4, <2>6 DEF Published, NoRelease
  <2>12. QED
    BY <2>5, <2>9, <2>10, <2>11 DEF Assembly, ReleasedImagesAreVerified, Verified, Accepts
<1>4. QED
  BY <1>2, <1>3 DEF PublishDirectory, Here

\* The second rename, or the removal of the directory it was to go with.
LEMMA PublishesArchive ==
  ASSUME TypeOK, PackTypeOK, Selected, Assembly, NEW k \in Packagers, PublishArchive(k)
  PROVE PackTypeOK' /\ Assembly'
<1>1. pack[k].pc = "archive"
  BY DEF PublishArchive, Here
<1>2. PICK c \in {"done", "failed"} :
        /\ Set(k, [pack[k] EXCEPT !.pc = c])
        /\ c = "done" => archive' = pack[k].files /\ UNCHANGED directory
        /\ c = "failed" => directory' = NoRelease /\ UNCHANGED archive
  BY DEF PublishArchive, Stop
<1> DEFINE p == [pack[k] EXCEPT !.pc = c]
<1>3. pack[k] \in PackState
  BY Own
<1>4. /\ p \in PackState /\ p.pc = c
      /\ p.collected = pack[k].collected /\ p.files = pack[k].files
  BY <1>3, Zenon DEF PackState
<1> HIDE DEF p
<1>5. /\ pack' \in [Packagers -> PackState]
      /\ pack'[k] = p
      /\ \A j \in Packagers \ {k} : pack'[j] = pack[j] /\ (Assembled(j) => Assembled(j)')
  BY <1>2, <1>4, SetOne DEF p
<1>6. /\ pack[k].files \in Seq(Item) /\ pack[k].files # NoRelease
      /\ pack[k].files[1].owner = k
      /\ \A n \in DOMAIN pack[k].files : Verified(pack[k].files[n])
  BY <1>1, Complete
<1>7. directory = pack[k].files /\ archive = NoRelease
  BY <1>1 DEF Assembly
<1>8. \A j \in Packagers \ {k} : pack[j].pc # "archive"
  BY <1>6, <1>7, Complete, Zenon DEF Assembly
<1>9. Assembled(k)'
  <2>1. Assembled(k)
    BY DEF Assembly
  <2>2. /\ pack'[k].files = pack[k].files /\ pack'[k].collected = pack[k].collected
        /\ pack'[k].pc \in {"done", "failed"}
    BY <1>4, <1>5
  <2>3. Counts(k)'
    BY <2>2 DEF Counts
  <2>4. QED
    BY <2>1, <2>2, <2>3, SMTT(30) DEF Assembled, Holds, Verified, Accepts
<1>10. PackTypeOK'
  BY <1>2, <1>5, <1>6, <1>7, Zenon DEF PackTypeOK, NoRelease
<1>11. \A j \in Packagers : Assembled(j)' /\ pack'[j].pc # "archive"
  BY <1>4, <1>5, <1>8, <1>9 DEF Assembly
<1>12. PublishedTogether'
  BY <1>2, <1>6, <1>7 DEF PublishedTogether, NoRelease
<1>13. \A entry \in Published' : Verified(entry)
  BY <1>2, <1>6, <1>7 DEF Published, NoRelease
<1>14. QED
  BY <1>10, <1>11, <1>12, <1>13 DEF Assembly, ReleasedImagesAreVerified, Verified, Accepts

\* Assembly is inductive.
LEMMA AssemblyStep ==
  ASSUME TypeOK, Sound, PackTypeOK, Selected, Assembly, [PackNext]_allVars
  PROVE PackTypeOK' /\ Assembly'
<1>1. CASE UNCHANGED releaseVars
  <2>1. pack' = pack /\ directory' = directory /\ archive' = archive
    BY <1>1 DEF releaseVars
  <2>2. QED
    BY <2>1 DEF PackTypeOK, Assembly, Assembled, Counts, Holds, Verified, Accepts,
      ReleasedImagesAreVerified, Published, PublishedTogether
<1>2. ASSUME NEW k \in Packagers, Package(k) PROVE PackTypeOK' /\ Assembly'
  <2>o. /\ pack[k] \in PackState
        /\ Len(pack[k].collected) \in Nat /\ Len(pack[k].files) \in Nat /\ Len(Inputs) \in Nat
    BY Own
  <2>a. Counts(k)
    BY DEF Assembly, Assembled
  <2>1. CASE Begin(k)
    BY <2>1, <2>a, Moves, Zenon DEF Begin, Here, Stop, Counts
  <2>2. CASE CollectReport(k)
    BY <2>2, Collects
  <2>3. CASE CollectImage(k)
    <3>1. pack[k].pc = "image" /\ UNCHANGED <<directory, archive>>
      BY <2>3 DEF CollectImage, Here
    <3>c. Len(pack[k].files) = 0 /\ Len(pack[k].collected) \in 1 .. Len(Inputs)
      BY <2>a, <3>1 DEF Counts
    <3>d. /\ 0 < Len(Inputs)
          /\ Len(pack[k].collected) # Len(Inputs) => Len(pack[k].collected) < Len(Inputs)
      BY <2>o, <3>c
    <3>2. CASE Stop(k)
      BY <3>1, <3>2, Stops
    <3>3. CASE Len(pack[k].collected) = Len(Inputs) /\ Set(k, [pack[k] EXCEPT !.pc = "copy"])
      BY <3>1, <3>3, <3>c, <3>d, Moves, Zenon
    <3>4. CASE Len(pack[k].collected) # Len(Inputs)
               /\ Set(k, [pack[k] EXCEPT !.pc = "collect"])
      BY <3>1, <3>4, <3>c, <3>d, Moves, Zenon
    <3>5. QED
      BY <2>3, <3>2, <3>3, <3>4 DEF CollectImage
  <2>4. CASE Stage(k)
    BY <2>4, Stages
  <2>5. CASE Entry(k)
    BY <2>5, Enters
  <2>6. CASE PublishDirectory(k)
    BY <2>6, PublishesDirectory
  <2>7. CASE PublishArchive(k)
    BY <2>7, PublishesArchive
  <2>8. CASE KillPackage(k)
    BY <2>8, Moves, Zenon DEF KillPackage
  <2>9. QED
    BY <1>2, <2>1, <2>2, <2>3, <2>4, <2>5, <2>6, <2>7, <2>8 DEF Package
<1>3. QED
  BY <1>1, <1>2, Zenon DEF PackNext, allVars

\* Whatever is edited, built or killed while packages are assembled, every image in
\* the release directory and in the archive is complete, matches the report that
\* collect read and was compiled from the sources collect compared; and the archive
\* is never there without its directory (collect, the staging loop and the renames
\* of package_release.py).
THEOREM ReleasesAreVerified ==
  ASSUME Selected
  PROVE PackSpec => []ReleasedImagesAreVerified
<1>1. PackInit => TypeOK /\ Sound /\ PackTypeOK /\ Assembly
  <2> SUFFICES ASSUME PackInit PROVE TypeOK /\ Sound /\ PackTypeOK /\ Assembly
    OBVIOUS
  <2>1. TypeOK
    BY Blanks, BuildAssumption DEF PackInit, Init, TypeOK, NoCopy, Idle, Ready, BuildAssumption
  <2>2. Sound
    BY DEF PackInit, Init, Sound, Idle, NoReport, Accepts
  <2>3. Fresh \in PackState
    BY Blanks DEF Fresh, PackState
  <2>4. PackTypeOK
    BY <2>3 DEF PackInit, PackTypeOK, NoRelease
  <2>5. Len(Inputs) \in Nat /\ Len(Inputs) > 0
    BY DEF Selected
  <2>6. \A k \in Packagers : pack[k] = Fresh
    BY DEF PackInit
  <2>7. \A k \in Packagers : Assembled(k) /\ pack[k].pc # "archive"
    BY <2>5, <2>6 DEF Fresh, Assembled, Counts
  <2>8. ReleasedImagesAreVerified
    BY DEF PackInit, ReleasedImagesAreVerified, Published, PublishedTogether, NoRelease
  <2>9. QED
    BY <2>1, <2>2, <2>4, <2>7, <2>8 DEF Assembly
<1>2. TypeOK /\ Sound /\ PackTypeOK /\ Assembly /\ [PackNext]_allVars
        => (TypeOK /\ Sound /\ PackTypeOK /\ Assembly)'
  <2> SUFFICES ASSUME TypeOK, Sound, PackTypeOK, Assembly, [PackNext]_allVars
               PROVE (TypeOK /\ Sound /\ PackTypeOK /\ Assembly)'
    OBVIOUS
  <2>1. [Next]_vars
    BY Zenon DEF PackNext, Package, Here, Begin, CollectReport, CollectImage, Stage, Entry,
      PublishDirectory, PublishArchive, KillPackage, Next, allVars
  <2>2. QED
    BY <2>1, TypeStep, SoundStep, AssemblyStep
<1>3. Assembly => ReleasedImagesAreVerified
  BY DEF Assembly
<1>4. QED
  BY <1>1, <1>2, <1>3, PTL DEF PackSpec
=============================================================================
