----------------------- MODULE NativeInstallerProofs ------------------------
(***************************************************************************)
(* Proofs about the release builder and the native installer, for any set  *)
(* of commits, any lengths and any number of movements of the repository:  *)
(* an asset is one commit's, a copy stays inside its file whatever length  *)
(* the footer states, only tested programs are installed, and however a    *)
(* run ends what it leaves is accounted for.                               *)
(***************************************************************************)
EXTENDS NativeInstaller, TLAPS

(***************************************************************************)
(* The inductive invariant of the builder: what each stage may rely on.    *)
(***************************************************************************)
AfterPacking == {"compile", "run", "zip", "extract", "configure", "done", "released"}
AfterManifest == {"payload"} \cup AfterPacking
AfterCommon == {"manifest"} \cup AfterManifest
AfterArchive == {"archive_common"} \cup AfterCommon
AfterPin == {"output", "workspace", "archive"} \cup AfterArchive
AfterVersion == {"pin"} \cup AfterPin
AfterDiff == {"version"} \cup AfterVersion
AfterEpoch == {"diff"} \cup AfterDiff
AfterRun == {"zip", "extract", "configure", "done", "released"}

\* Nothing is used before it has been read.
ReadBeforeUse ==
  /\ stage \in AfterEpoch => read.epoch \in Commit
  /\ stage \in AfterVersion => read.version \in Commit \cup {Edited}
  /\ stage \in AfterPin => read.pin \in CommonCommit
  /\ stage \in AfterArchive => export.commit \in Commit

\* What is packed and written is what was exported for the pin that was read.
PackedIsExported ==
  /\ stage \in AfterCommon => export.common = read.pin
  /\ stage \in AfterManifest => export.marker = read.pin
  /\ stage \in AfterPacking => payload = normalize_tree_times(read.epoch)
  /\ stage \in AfterRun =>
       asset.image \in Image /\ asset.version = read.version /\ asset.image.tree = payload

\* HEAD and the working tree are one commit from the first reading to the
\* export, unless the repository moved in between.
OneCommitRead ==
  ~mixed =>
    /\ stage \in Reading => head = read.epoch
    /\ stage \in Reading \ {"diff"} => worktree = head
    /\ stage \in AfterVersion => read.version = read.epoch
    /\ stage \in AfterPin => read.pin = Pin[read.epoch]
    /\ stage \in AfterArchive => export.commit = read.epoch

\* The workspace does not exist before it is made.
NoEarlyWorkspace == stage \in Early \cup {"workspace"} => ~work

(***************************************************************************)
(* The inductive invariant of the installer.                               *)
(***************************************************************************)
\* The installer runs on the asset of a finished build, damaged or not.
RunsOnAsset ==
  at # "waiting" =>
    stage = "released" /\ image \in Image /\ image.tree = asset.image.tree

\* Which step belongs to which way of calling the installer.
ModeOfStep ==
  /\ mode = "extract" => at \in {"waiting", "target", "copy", "tar", "remove", "success",
                                 "failed", "killed"}
  /\ at = "target" => mode = "extract"
  /\ at \in {"apt", "verify"} => mode = "install"

\* How far build, tests, package and installation are at each step.
BuiltAndTested ==
  /\ at = "train_test" => programs = "training"
  /\ at \in {"build", "test"} => "training" \in tested
  /\ at \in {"test", "cpack"} => programs = "optimised"
  /\ at \in {"cpack", "apt", "verify", "done"} => tested = Build
  /\ at \in {"apt", "verify", "done"} => packaged = "optimised" /\ packages = 1
  /\ at = "verify" \/ (at = "done" /\ mode = "install") => host.installed = "optimised"

\* Where the temporary copy, the build tree and a made directory can exist.
TemporaryFiles ==
  /\ archive => at \in {"tar", "killed"} \/ (stuck /\ at # "waiting")
  /\ tree # "none" => mode # "extract"
  /\ at \in {"waiting", "prerequisites", "checks"} => tree = "none"
  /\ target = "made" => mode = "extract" /\ at \notin {"waiting", "target"}

BuilderInv ==
  /\ BuilderTypeOK
  /\ ReadBeforeUse
  /\ PackedIsExported
  /\ OneCommitRead
  /\ NoEarlyWorkspace
  /\ NoWorkspaceLeft

IInv ==
  /\ BuilderInv
  /\ TypeOK /\ NothingLeft /\ SuccessMeansDone
  /\ CopyInsideFile
  /\ OnlyTestedIsInstalled
  /\ RunsOnAsset
  /\ ModeOfStep
  /\ BuiltAndTested
  /\ TemporaryFiles

-----------------------------------------------------------------------------
(***************************************************************************)
(* The builder.                                                            *)
(***************************************************************************)
\* Reading HEAD, the working tree and the pin.
LEMMA ReadingSteps ==
  ASSUME BuilderInv, UNCHANGED <<repository, mixed>>,
         read_epoch \/ diff \/ read_version \/ read_pin \/ output_directory
  PROVE  BuilderInv'
<1>1. BuilderTypeOK'
  BY PinAssumption
  DEF BuilderInv, BuilderTypeOK, repository, Step, read_epoch, diff, read_version, read_pin,
      output_directory
<1>2. ReadBeforeUse'
  BY PinAssumption
  DEF BuilderInv, BuilderTypeOK, repository, Step, read_epoch, diff, read_version, read_pin,
      output_directory, ReadBeforeUse, AfterEpoch, AfterDiff, AfterVersion, AfterPin,
      AfterArchive, AfterCommon, AfterManifest, AfterPacking
<1>3. PackedIsExported'
  BY DEF BuilderInv, Step, read_epoch, diff, read_version, read_pin,
      output_directory, PackedIsExported,
      AfterCommon, AfterManifest, AfterPacking, AfterRun
<1>4. OneCommitRead'
  BY DEF BuilderInv, BuilderTypeOK, repository, Step, read_epoch, diff, read_version, read_pin,
      output_directory, OneCommitRead, AfterEpoch, AfterDiff, AfterVersion, AfterPin,
      AfterArchive, AfterCommon, AfterManifest, AfterPacking, Reading
<1>5. NoEarlyWorkspace' /\ NoWorkspaceLeft'
  BY DEF BuilderInv, Step, read_epoch, diff, read_version, read_pin,
      output_directory, NoEarlyWorkspace, NoWorkspaceLeft, Early
<1>6. QED BY <1>1, <1>2, <1>3, <1>4, <1>5 DEF BuilderInv

\* Making the workspace, and every way to leave the steps before and after it.
LEMMA WorkspaceSteps ==
  ASSUME BuilderInv, UNCHANGED <<repository, mixed>>,
         workspace \/ workspace_fails \/ fails \/ cleanup
  PROVE  BuilderInv'
<1>1. BuilderTypeOK'
  BY DEF BuilderInv, BuilderTypeOK, repository, Step, workspace, workspace_fails, fails,
         cleanup, remove_tree
<1>2. ReadBeforeUse' /\ PackedIsExported'
  BY DEF BuilderInv, Step, workspace, workspace_fails, fails, cleanup, ReadBeforeUse,
         PackedIsExported, normalize_tree_times, AfterEpoch, AfterDiff, AfterVersion, AfterPin,
         AfterArchive, AfterCommon, AfterManifest, AfterPacking, AfterRun
<1>3. OneCommitRead'
  BY DEF BuilderInv, repository, Step, workspace, workspace_fails, fails, cleanup,
         OneCommitRead, AfterVersion, AfterPin, AfterArchive, AfterCommon, AfterManifest,
         AfterPacking, Reading
<1>4. NoEarlyWorkspace' /\ NoWorkspaceLeft'
  BY DEF BuilderInv, BuilderTypeOK, Step, workspace, workspace_fails, fails, cleanup,
         remove_tree, NoEarlyWorkspace, NoWorkspaceLeft, Early, Late
<1>5. QED BY <1>1, <1>2, <1>3, <1>4 DEF BuilderInv

\* Exporting HEAD and Common, and packing the export.
LEMMA ExportSteps ==
  ASSUME BuilderInv, UNCHANGED <<repository, mixed>>,
         archive_root \/ archive_common \/ common_manifest \/ pack \/ compile
  PROVE  BuilderInv'
<1>1. BuilderTypeOK'
  <2>1. export' \in [commit : Commit \cup {None}, common : CommonCommit \cup {None},
                     marker : CommonCommit \cup {None}]
    BY DEF BuilderInv, BuilderTypeOK, archive_root, archive_common, common_manifest, pack,
           compile
  <2>2. payload' \in Tree \cup {None}
    BY DEF BuilderInv, BuilderTypeOK, ReadBeforeUse, PackedIsExported, normalize_tree_times,
           Step, archive_root, archive_common, common_manifest, pack, compile, Tree,
           AfterEpoch, AfterDiff, AfterVersion, AfterPin, AfterArchive, AfterCommon,
           AfterManifest
  <2>3. QED
    BY <2>1, <2>2
    DEF BuilderInv, BuilderTypeOK, repository, archive_root, archive_common,
        common_manifest, pack, compile
<1>2. ReadBeforeUse'
  BY DEF BuilderInv, BuilderTypeOK, Step, archive_root, archive_common, common_manifest, pack,
         compile, ReadBeforeUse, AfterEpoch, AfterDiff, AfterVersion, AfterPin, AfterArchive,
         AfterCommon, AfterManifest, AfterPacking
<1>3. PackedIsExported'
  BY DEF BuilderInv, BuilderTypeOK, Step, archive_root, archive_common, common_manifest, pack,
         compile, PackedIsExported, normalize_tree_times, AfterCommon, AfterManifest,
         AfterPacking, AfterRun
<1>4. OneCommitRead'
  BY DEF BuilderInv, BuilderTypeOK, repository, Step, archive_root, archive_common,
         common_manifest, pack, compile, OneCommitRead, AfterVersion, AfterPin, AfterArchive,
         AfterCommon, AfterManifest, AfterPacking, Reading
<1>5. NoEarlyWorkspace' /\ NoWorkspaceLeft'
  BY DEF BuilderInv, Step, archive_root, archive_common, common_manifest, pack, compile,
         NoEarlyWorkspace, NoWorkspaceLeft, Early
<1>6. QED BY <1>1, <1>2, <1>3, <1>4, <1>5 DEF BuilderInv

\* Writing the asset, whole or in part, and the checks of the finished one.
LEMMA AssetSteps ==
  ASSUME BuilderInv, UNCHANGED <<repository, mixed>>,
         write_run \/ write_run_fails \/ zip \/ extract \/ configure
  PROVE  BuilderInv'
<1>1. CASE write_run \/ write_run_fails
  <2>1. /\ stage = "run" /\ stage' \in {"zip", "cleanup"}
        /\ UNCHANGED <<read, export, payload, work, stuck>>
    BY <1>1 DEF write_run, write_run_fails, Step
  <2>2. payload \in Tree /\ read.version \in Commit \cup {Edited}
    BY <2>1
    DEF BuilderInv, BuilderTypeOK, ReadBeforeUse, PackedIsExported, normalize_tree_times, Tree,
        AfterEpoch, AfterDiff, AfterVersion, AfterPin, AfterArchive, AfterCommon,
        AfterManifest, AfterPacking
  <2>3. \/ UNCHANGED asset /\ stage' = "cleanup"
        \/ /\ asset'.image \in Image /\ asset'.version = read.version
           /\ asset'.image.tree = payload
    <3> SUFFICES ASSUME NEW whole \in BOOLEAN, Written(whole)
                 PROVE  /\ asset'.image \in Image /\ asset'.version = read.version
                        /\ asset'.image.tree = payload
      BY <1>1 DEF write_run, write_run_fails, Step
    <3>1. PICK n \in Length, m \in Length, b \in BOOLEAN, k \in Length \cup {0} :
            asset' = [version |-> read.version,
                      image |-> [program |-> n, payload |-> m, footer |-> b, claim |-> k,
                                 tree |-> payload, intact |-> b]]
      BY DEF Written
    <3>2. k \in 0..(Word - 1)
      BY LengthAssumption, WordAssumption DEF Word
    <3>3. QED BY <2>2, <3>1, <3>2 DEF Image
  <2>4. BuilderTypeOK'
    BY <2>1, <2>2, <2>3 DEF BuilderInv, BuilderTypeOK, repository
  <2>5. ReadBeforeUse' /\ PackedIsExported'
    BY <2>1, <2>3
    DEF BuilderInv, ReadBeforeUse, PackedIsExported, normalize_tree_times, AfterEpoch,
        AfterDiff, AfterVersion, AfterPin, AfterArchive, AfterCommon, AfterManifest,
        AfterPacking, AfterRun
  <2>6. OneCommitRead'
    BY <2>1
    DEF BuilderInv, repository, OneCommitRead, AfterVersion, AfterPin, AfterArchive,
        AfterCommon, AfterManifest, AfterPacking, Reading
  <2>7. NoEarlyWorkspace' /\ NoWorkspaceLeft'
    BY <2>1 DEF NoEarlyWorkspace, NoWorkspaceLeft, Early
  <2>8. QED BY <2>4, <2>5, <2>6, <2>7 DEF BuilderInv
<1>2. CASE zip \/ extract \/ configure
  <2>1. /\ stage \in {"zip", "extract", "configure"} /\ stage' \in {"extract", "configure", "done"}
        /\ UNCHANGED <<read, export, payload, work, asset, stuck>>
    BY <1>2 DEF zip, extract, configure, Step
  <2>2. BuilderTypeOK'
    BY <2>1 DEF BuilderInv, BuilderTypeOK, repository
  <2>3. ReadBeforeUse' /\ PackedIsExported'
    BY <2>1
    DEF BuilderInv, ReadBeforeUse, PackedIsExported, normalize_tree_times, AfterEpoch,
        AfterDiff, AfterVersion, AfterPin, AfterArchive, AfterCommon, AfterManifest,
        AfterPacking, AfterRun
  <2>4. OneCommitRead'
    BY <2>1
    DEF BuilderInv, repository, OneCommitRead, AfterVersion, AfterPin, AfterArchive,
        AfterCommon, AfterManifest, AfterPacking, Reading
  <2>5. NoEarlyWorkspace' /\ NoWorkspaceLeft'
    BY <2>1 DEF NoEarlyWorkspace, NoWorkspaceLeft, Early
  <2>6. QED BY <2>2, <2>3, <2>4, <2>5 DEF BuilderInv
<1>3. QED BY <1>1, <1>2

\* What others do in the repository disturbs only what has not been read yet,
\* and is recorded in mixed while HEAD and the working tree are being read.
LEMMA RepositoryStep ==
  ASSUME BuilderInv, RepositoryMoves
  PROVE  BuilderInv'
<1>1. UNCHANGED <<stage, read, export, payload, work, asset, stuck>>
  BY DEF RepositoryMoves
<1>2. BuilderTypeOK'
  <2>1. moves' \in 0..MaxMoves
    BY OtherAssumption DEF BuilderInv, BuilderTypeOK, RepositoryMoves
  <2>2. head' \in Commit /\ worktree' \in Commit \cup {Edited} /\ common' \in CommonCommit
    BY DEF BuilderInv, BuilderTypeOK, RepositoryMoves
  <2>3. mixed' \in BOOLEAN
    BY DEF RepositoryMoves
  <2>4. QED BY <1>1, <2>1, <2>2, <2>3 DEF BuilderInv, BuilderTypeOK
<1>3. ReadBeforeUse' /\ PackedIsExported' /\ NoEarlyWorkspace' /\ NoWorkspaceLeft'
  BY <1>1
  DEF BuilderInv, ReadBeforeUse, PackedIsExported, normalize_tree_times, NoEarlyWorkspace,
      NoWorkspaceLeft
<1>4. OneCommitRead'
  <2>1. ~mixed' => ~mixed /\ (stage \in Reading => UNCHANGED <<head, worktree>>)
    BY DEF RepositoryMoves, BuilderInv, BuilderTypeOK
  <2>2. QED BY <1>1, <2>1 DEF BuilderInv, OneCommitRead
<1>5. QED BY <1>2, <1>3, <1>4 DEF BuilderInv

\* The asset of a build that is released is one commit's.
LEMMA ReleasedAsset == BuilderInv => AssetIsOneCommit
BY DEF BuilderInv, ReadBeforeUse, PackedIsExported, OneCommitRead, AssetIsOneCommit,
       normalize_tree_times, AfterEpoch, AfterDiff, AfterVersion, AfterPin, AfterArchive,
       AfterCommon, AfterManifest, AfterPacking, AfterRun

-----------------------------------------------------------------------------
(***************************************************************************)
(* The installer.                                                          *)
(***************************************************************************)
\* The payload of a copy that succeeds ends where the footer begins: a length
\* off_t cannot hold turns the start of the copy past the end of the file, where
\* the read fails (copy_payload, payload_bounds).
LEMMA CopyStaysInside ==
  ASSUME NEW i \in Image, copy_payload(i)
  PROVE  payload_start(i) > 0 /\ payload_start(i) + i.claim = Size(i) - Footer
<1>1. /\ i.program \in Nat /\ i.payload \in Nat /\ i.claim \in 0..(Word - 1)
      /\ Half \in Nat /\ Footer \in 1..(Half - 1)
  BY LengthAssumption, WordAssumption DEF Image
<1>2. payload_start(i) > 0 /\ payload_start(i) + i.claim <= Size(i)
  BY DEF copy_payload, payload_bounds
<1>3. CASE i.claim < Half
  BY <1>1, <1>2, <1>3 DEF payload_start, Signed, Size
<1>4. CASE i.claim >= Half
  BY <1>1, <1>2, <1>4 DEF payload_start, Signed, Size, Word
<1>5. QED BY <1>1, <1>3, <1>4

\* While the builder runs the installer waits.
LEMMA InstallerWaits ==
  ASSUME IInv, UNCHANGED installer, stage # "released", BuilderInv'
  PROVE  IInv'
<1>1. at = "waiting" /\ at' = "waiting"
  BY DEF IInv, RunsOnAsset, installer
<1>2. TypeOK'
  BY DEF IInv, TypeOK, BuilderInv, installer
<1>3. OnlyTestedIsInstalled'
  BY DEF IInv, OnlyTestedIsInstalled, installer
<1>4. TemporaryFiles'
  BY <1>1 DEF IInv, TemporaryFiles, installer, TypeOK, BuilderTypeOK
<1>5. QED
  BY <1>1, <1>2, <1>3, <1>4
  DEF IInv, NothingLeft, SuccessMeansDone, CopyInsideFile, RunsOnAsset, ModeOfStep,
      BuiltAndTested, installer

\* The installer leaves the repository and the builder's state alone; it only
\* adds to what could not be removed.
LEMMA BuilderIsDone ==
  ASSUME BuilderInv, UNCHANGED <<repository, builder>>, stuck' \in BOOLEAN, stuck => stuck'
  PROVE  BuilderInv'
<1>1. UNCHANGED <<head, worktree, common, moves, stage, read, export, payload, work, asset,
                  mixed>>
  BY DEF repository, builder
<1>2. BuilderTypeOK'
  BY <1>1 DEF BuilderInv, BuilderTypeOK
<1>3. QED
  BY <1>1, <1>2
  DEF BuilderInv, ReadBeforeUse, PackedIsExported, normalize_tree_times, OneCommitRead,
      NoEarlyWorkspace, NoWorkspaceLeft

\* The download hands a released asset, damaged or not, to the installer.
LEMMA DownloadStep ==
  ASSUME IInv, UNCHANGED <<repository, builder>>, Download
  PROVE  IInv'
<1>1. BuilderInv'
  BY BuilderIsDone DEF IInv, BuilderInv, BuilderTypeOK, Download
<1>2. image' \in Image /\ image'.tree = asset.image.tree
  <2>1. asset.image \in Image
    BY DEF IInv, BuilderInv, PackedIsExported, Download, AfterRun
  <2>2. \/ image' = asset.image
        \/ \E n \in 0..(Word - 1) : image' = [asset.image EXCEPT !.claim = n]
        \/ image' = [asset.image EXCEPT !.footer = FALSE]
        \/ image' = [asset.image EXCEPT !.intact = FALSE]
    BY DEF Download
  <2>3. QED BY <2>1, <2>2 DEF Image
<1>3. TypeOK' /\ RunsOnAsset' /\ ModeOfStep'
  <2>1. TypeOK'
    BY <1>1, <1>2 DEF IInv, TypeOK, BuilderInv, Download
  <2>2. RunsOnAsset' /\ ModeOfStep'
    BY <1>2 DEF IInv, TypeOK, builder, RunsOnAsset, ModeOfStep, Download
  <2>3. QED BY <2>1, <2>2
<1>4. CopyInsideFile'
  BY DEF IInv, CopyInsideFile, payload_start, Size, Download
<1>5. BuiltAndTested' /\ OnlyTestedIsInstalled'
  BY DEF IInv, TypeOK, BuiltAndTested, OnlyTestedIsInstalled, Build, Download
<1>6. TemporaryFiles'
  BY DEF IInv, TypeOK, BuilderInv, BuilderTypeOK, TemporaryFiles, ModeOfStep, Download
<1>7. NothingLeft'
  BY DEF IInv, TypeOK, BuilderInv, BuilderTypeOK, NothingLeft, TemporaryFiles, ModeOfStep, Download
<1>8. SuccessMeansDone'
  BY DEF IInv, TypeOK, builder, SuccessMeansDone, RunsOnAsset, ModeOfStep, BuiltAndTested, Download
<1>9. QED BY <1>1, <1>2, <1>3, <1>4, <1>5, <1>6, <1>7, <1>8 DEF IInv

\* Prerequisites, the build tree and the directory of --extract.
LEMMA PrepareSteps ==
  ASSUME IInv, UNCHANGED <<repository, builder>>, ensure_prerequisites \/ make_tree \/ make_target
  PROVE  IInv'
<1>1. BuilderInv'
  BY BuilderIsDone DEF IInv, BuilderInv, BuilderTypeOK, ensure_prerequisites, make_tree, make_target
<1>2. TypeOK'
  <2>1. host' \in [tools : BOOLEAN, sudo : BOOLEAN, installed : {"before", "partly"} \cup Build]
    BY DEF IInv, TypeOK, ensure_prerequisites, make_tree, make_target
  <2>2. QED
    BY <1>1, <2>1 DEF IInv, TypeOK, BuilderInv, ensure_prerequisites, make_tree, make_target
<1>3. RunsOnAsset' /\ ModeOfStep'
  BY DEF IInv, TypeOK, builder, RunsOnAsset, ModeOfStep, To, ensure_prerequisites, make_tree,
         make_target
<1>4. CopyInsideFile'
  BY DEF IInv, CopyInsideFile, payload_start, Size, To, ensure_prerequisites, make_tree, make_target
<1>5. BuiltAndTested' /\ OnlyTestedIsInstalled'
  BY DEF IInv, TypeOK, BuiltAndTested, OnlyTestedIsInstalled, Build, To, ensure_prerequisites,
         make_tree, make_target
<1>6. TemporaryFiles'
  BY DEF IInv, TypeOK, BuilderInv, BuilderTypeOK, TemporaryFiles, ModeOfStep, To,
         ensure_prerequisites, make_tree, make_target
<1>7. NothingLeft'
  BY DEF IInv, TypeOK, BuilderInv, BuilderTypeOK, NothingLeft, TemporaryFiles, ModeOfStep, To,
         ensure_prerequisites, make_tree, make_target
<1>8. SuccessMeansDone'
  BY DEF IInv, TypeOK, builder, SuccessMeansDone, RunsOnAsset, ModeOfStep, BuiltAndTested, To,
         ensure_prerequisites, make_tree, make_target
<1>9. QED BY <1>1, <1>2, <1>3, <1>4, <1>5, <1>6, <1>7, <1>8 DEF IInv

\* A copy of the payload, whole.
LEMMA CopyStep ==
  ASSUME IInv, UNCHANGED <<repository, builder>>, copy
  PROVE  IInv'
<1>1. BuilderInv'
  BY BuilderIsDone DEF IInv, BuilderInv, BuilderTypeOK, copy
<1>2. TypeOK'
  BY <1>1 DEF IInv, TypeOK, BuilderInv, To, Build, copy
<1>3. RunsOnAsset' /\ ModeOfStep'
  BY DEF IInv, TypeOK, builder, RunsOnAsset, ModeOfStep, To, copy
<1>4. CopyInsideFile'
  <2>1. image \in Image /\ copy_payload(image) /\ UNCHANGED image
    BY DEF IInv, RunsOnAsset, To, copy
  <2>2. QED BY <2>1, CopyStaysInside DEF CopyInsideFile, payload_start, Size
<1>5. BuiltAndTested' /\ OnlyTestedIsInstalled'
  BY DEF IInv, TypeOK, BuiltAndTested, OnlyTestedIsInstalled, Build, To, copy
<1>6. TemporaryFiles'
  BY DEF IInv, TypeOK, BuilderInv, BuilderTypeOK, TemporaryFiles, ModeOfStep, To, copy
<1>7. NothingLeft'
  BY DEF IInv, TypeOK, BuilderInv, BuilderTypeOK, NothingLeft, TemporaryFiles, ModeOfStep, To, copy
<1>8. SuccessMeansDone'
  BY DEF IInv, TypeOK, builder, SuccessMeansDone, RunsOnAsset, ModeOfStep, BuiltAndTested, To, copy
<1>9. QED BY <1>1, <1>2, <1>3, <1>4, <1>5, <1>6, <1>7, <1>8 DEF IInv

\* A copy that fails removes what it wrote, or says that it could not.
LEMMA CopyFailsStep ==
  ASSUME IInv, UNCHANGED <<repository, builder>>, copy_fails
  PROVE  IInv'
<1>1. BuilderInv'
  BY BuilderIsDone DEF IInv, BuilderInv, BuilderTypeOK, copy_fails
<1>2. TypeOK'
  BY <1>1 DEF IInv, TypeOK, BuilderInv, To, Build, copy_fails
<1>3. RunsOnAsset' /\ ModeOfStep'
  BY DEF IInv, TypeOK, builder, RunsOnAsset, ModeOfStep, To, copy_fails
<1>4. CopyInsideFile'
  BY DEF IInv, CopyInsideFile, payload_start, Size, To, copy_fails
<1>5. BuiltAndTested' /\ OnlyTestedIsInstalled'
  BY DEF IInv, TypeOK, BuiltAndTested, OnlyTestedIsInstalled, Build, To, copy_fails
<1>6. TemporaryFiles'
  BY DEF IInv, TypeOK, BuilderInv, BuilderTypeOK, TemporaryFiles, ModeOfStep, To, copy_fails
<1>7. NothingLeft'
  BY DEF IInv, TypeOK, BuilderInv, BuilderTypeOK, NothingLeft, TemporaryFiles, ModeOfStep, To,
         copy_fails
<1>8. SuccessMeansDone'
  BY DEF IInv, TypeOK, builder, SuccessMeansDone, RunsOnAsset, ModeOfStep, BuiltAndTested, To,
         copy_fails
<1>9. QED BY <1>1, <1>2, <1>3, <1>4, <1>5, <1>6, <1>7, <1>8 DEF IInv

\* Unpacking ends with the copy removed, or with a warning that it is not.
LEMMA UnpackStep ==
  ASSUME IInv, UNCHANGED <<repository, builder>>, unpack
  PROVE  IInv'
<1>1. BuilderInv'
  BY BuilderIsDone DEF IInv, BuilderInv, BuilderTypeOK, unpack
<1>2. TypeOK'
  BY <1>1 DEF IInv, TypeOK, BuilderInv, To, Build, unpack
<1>3. RunsOnAsset' /\ ModeOfStep'
  BY DEF IInv, TypeOK, builder, RunsOnAsset, ModeOfStep, To, unpack
<1>4. CopyInsideFile'
  BY DEF IInv, CopyInsideFile, payload_start, Size, To, unpack
<1>5. BuiltAndTested' /\ OnlyTestedIsInstalled'
  BY DEF IInv, TypeOK, BuiltAndTested, OnlyTestedIsInstalled, Build, To, unpack
<1>6. TemporaryFiles'
  BY DEF IInv, TypeOK, BuilderInv, BuilderTypeOK, TemporaryFiles, ModeOfStep, To, unpack
<1>7. NothingLeft'
  BY DEF IInv, TypeOK, BuilderInv, BuilderTypeOK, NothingLeft, TemporaryFiles, ModeOfStep, To,
         unpack
<1>8. SuccessMeansDone'
  BY DEF IInv, TypeOK, builder, SuccessMeansDone, RunsOnAsset, ModeOfStep, BuiltAndTested, To,
         unpack
<1>9. QED BY <1>1, <1>2, <1>3, <1>4, <1>5, <1>6, <1>7, <1>8 DEF IInv

\* Builds, tests, package and installation.
LEMMA BuildSteps ==
  ASSUME IInv, UNCHANGED <<repository, builder>>, build \/ test \/ package \/ install \/ verify
  PROVE  IInv'
<1>1. BuilderInv'
  BY BuilderIsDone DEF IInv, BuilderInv, BuilderTypeOK, build, test, package, install, verify
<1>2. TypeOK'
  <2>1. programs' \in Build \cup {None} /\ packaged' \in Build \cup {None}
    BY DEF IInv, TypeOK, Build, build, test, package, install, verify
  <2>2. tested' \subseteq Build
    BY DEF IInv, TypeOK, BuiltAndTested, Build, To, build, test, package, install, verify
  <2>3. packages' \in 0..2
    BY DEF IInv, TypeOK, build, test, package, install, verify
  <2>4. host' \in [tools : BOOLEAN, sudo : BOOLEAN, installed : {"before", "partly"} \cup Build]
    <3>1. at = "apt" => packaged \in Build
      BY DEF IInv, BuiltAndTested, Build
    <3>2. UNCHANGED host \/ (at = "apt" /\ host' = [host EXCEPT !.installed = packaged])
      BY DEF To, build, test, package, install, verify
    <3>3. QED BY <3>1, <3>2 DEF IInv, TypeOK
  <2>5. UNCHANGED <<mode, image, target, archive, tree>>
    BY DEF build, test, package, install, verify
  <2>6. QED
    BY <1>1, <2>1, <2>2, <2>3, <2>4, <2>5 DEF IInv, TypeOK, BuilderInv
<1>3. RunsOnAsset' /\ ModeOfStep'
  BY DEF IInv, TypeOK, builder, RunsOnAsset, ModeOfStep, To, build, test, package, install, verify
<1>4. CopyInsideFile'
  BY DEF IInv, CopyInsideFile, payload_start, Size, To, build, test, package, install, verify
<1>5. BuiltAndTested' /\ OnlyTestedIsInstalled'
  BY DEF IInv, TypeOK, BuiltAndTested, OnlyTestedIsInstalled, Build, To, build, test, package,
         install, verify
<1>6. TemporaryFiles'
  BY DEF IInv, TypeOK, BuilderInv, BuilderTypeOK, TemporaryFiles, ModeOfStep, To, build, test,
         package, install, verify
<1>7. NothingLeft'
  BY DEF IInv, TypeOK, BuilderInv, BuilderTypeOK, NothingLeft, TemporaryFiles, ModeOfStep, To,
         build, test, package, install, verify
<1>8. SuccessMeansDone'
  BY DEF IInv, TypeOK, builder, SuccessMeansDone, RunsOnAsset, ModeOfStep, BuiltAndTested, To,
         build, test, package, install, verify
<1>9. QED BY <1>1, <1>2, <1>3, <1>4, <1>5, <1>6, <1>7, <1>8 DEF IInv

\* A command that fails leaves what the commands before it made.
LEMMA FailureStep ==
  ASSUME IInv, UNCHANGED <<repository, builder>>, step_fails
  PROVE  IInv'
<1>1. BuilderInv'
  BY BuilderIsDone DEF IInv, BuilderInv, BuilderTypeOK, step_fails
<1>2. TypeOK'
  BY <1>1 DEF IInv, TypeOK, BuilderInv, To, Build, step_fails
<1>3. RunsOnAsset' /\ ModeOfStep'
  BY DEF IInv, TypeOK, builder, RunsOnAsset, ModeOfStep, To, step_fails
<1>4. CopyInsideFile'
  BY DEF IInv, CopyInsideFile, payload_start, Size, To, step_fails
<1>5. BuiltAndTested' /\ OnlyTestedIsInstalled'
  BY DEF IInv, TypeOK, BuiltAndTested, OnlyTestedIsInstalled, Build, To, step_fails
<1>6. TemporaryFiles'
  BY DEF IInv, TypeOK, BuilderInv, BuilderTypeOK, TemporaryFiles, ModeOfStep, To, step_fails
<1>7. NothingLeft'
  BY DEF IInv, TypeOK, BuilderInv, BuilderTypeOK, NothingLeft, TemporaryFiles, ModeOfStep, To,
         step_fails
<1>8. SuccessMeansDone'
  BY DEF IInv, TypeOK, builder, SuccessMeansDone, RunsOnAsset, ModeOfStep, BuiltAndTested, To,
         step_fails
<1>9. QED BY <1>1, <1>2, <1>3, <1>4, <1>5, <1>6, <1>7, <1>8 DEF IInv

\* Removing the tree, at the end and after a failure.
LEMMA RemoveStep ==
  ASSUME IInv, UNCHANGED <<repository, builder>>, remove
  PROVE  IInv'
<1>1. BuilderInv'
  <2>1. stuck \in BOOLEAN /\ (stuck' = TRUE \/ stuck' = stuck)
    BY DEF IInv, BuilderInv, BuilderTypeOK, remove
  <2>2. stuck' \in BOOLEAN /\ (stuck => stuck')
    BY <2>1
  <2>3. QED BY <2>2, BuilderIsDone DEF IInv
<1>2. TypeOK'
  BY <1>1 DEF IInv, TypeOK, BuilderInv, To, Build, remove
<1>3. RunsOnAsset' /\ ModeOfStep'
  BY DEF IInv, TypeOK, builder, RunsOnAsset, ModeOfStep, To, remove
<1>4. CopyInsideFile'
  BY DEF IInv, CopyInsideFile, payload_start, Size, To, remove
<1>5. BuiltAndTested' /\ OnlyTestedIsInstalled'
  BY DEF IInv, TypeOK, BuiltAndTested, OnlyTestedIsInstalled, Build, To, remove
<1>6. TemporaryFiles'
  BY DEF IInv, TypeOK, BuilderInv, BuilderTypeOK, TemporaryFiles, ModeOfStep, To, remove
<1>7. NothingLeft'
  BY DEF IInv, TypeOK, BuilderInv, BuilderTypeOK, NothingLeft, TemporaryFiles, ModeOfStep, To,
         remove
<1>8. SuccessMeansDone'
  BY DEF IInv, TypeOK, builder, SuccessMeansDone, RunsOnAsset, ModeOfStep, BuiltAndTested, To,
         remove
<1>9. QED BY <1>1, <1>2, <1>3, <1>4, <1>5, <1>6, <1>7, <1>8 DEF IInv

\* A signal ends the installer and changes nothing else.
LEMMA KilledStep ==
  ASSUME IInv, UNCHANGED <<repository, builder>>, killed
  PROVE  IInv'
<1>1. BuilderInv'
  BY BuilderIsDone DEF IInv, BuilderInv, BuilderTypeOK, killed
<1>2. TypeOK'
  BY <1>1 DEF IInv, TypeOK, BuilderInv, To, Build, killed
<1>3. RunsOnAsset' /\ ModeOfStep'
  BY DEF IInv, TypeOK, builder, RunsOnAsset, ModeOfStep, To, killed
<1>4. CopyInsideFile'
  BY DEF IInv, CopyInsideFile, payload_start, Size, To, killed
<1>5. BuiltAndTested' /\ OnlyTestedIsInstalled'
  BY DEF IInv, TypeOK, BuiltAndTested, OnlyTestedIsInstalled, Build, To, killed
<1>6. TemporaryFiles'
  BY DEF IInv, TypeOK, BuilderInv, BuilderTypeOK, TemporaryFiles, ModeOfStep, To, killed
<1>7. NothingLeft'
  BY DEF IInv, TypeOK, BuilderInv, BuilderTypeOK, NothingLeft, TemporaryFiles, ModeOfStep, To,
         killed
<1>8. SuccessMeansDone'
  BY DEF IInv, TypeOK, builder, SuccessMeansDone, RunsOnAsset, ModeOfStep, BuiltAndTested, To,
         killed
<1>9. QED BY <1>1, <1>2, <1>3, <1>4, <1>5, <1>6, <1>7, <1>8 DEF IInv

-----------------------------------------------------------------------------
(***************************************************************************)
(* The theorems.                                                           *)
(***************************************************************************)
\* The inductive invariant holds before anything is built or downloaded.
LEMMA InvInit == Init => IInv
<1> SUFFICES ASSUME Init PROVE IInv
  OBVIOUS
<1>1. BuilderInv
  <2>1. BuilderTypeOK
    <3>1. /\ head \in Commit /\ worktree \in Commit \cup {Edited} /\ common \in CommonCommit
          /\ moves \in 0..MaxMoves
      BY OtherAssumption DEF Init, BuilderInit
    <3>2. /\ read \in [epoch : Commit \cup {None}, version : Commit \cup {Edited, None},
                       pin : CommonCommit \cup {None}]
          /\ export \in [commit : Commit \cup {None}, common : CommonCommit \cup {None},
                         marker : CommonCommit \cup {None}]
      BY DEF Init, BuilderInit
    <3>3. QED BY <3>1, <3>2 DEF Init, BuilderInit, BuilderTypeOK
  <2>2. QED
    BY <2>1
    DEF Init, BuilderInit, BuilderInv, ReadBeforeUse, PackedIsExported, OneCommitRead,
        NoEarlyWorkspace, NoWorkspaceLeft, Reading, Early, AfterEpoch, AfterDiff, AfterVersion,
        AfterPin, AfterArchive, AfterCommon, AfterManifest, AfterPacking, AfterRun
<1>2. TypeOK
  <2>1. host \in [tools : BOOLEAN, sudo : BOOLEAN, installed : {"before", "partly"} \cup Build]
    BY DEF Init
  <2>2. target \in {"absent", "users"}
    BY DEF Init
  <2>3. mode \in {"install", "build-only", "extract"} /\ tree = "none"
    BY DEF Init
  <2>4. image \in Image \cup {None}
    BY DEF Init
  <2>5. archive \in BOOLEAN
    BY DEF Init
  <2>6. programs \in Build \cup {None} /\ packaged \in Build \cup {None}
    BY DEF Init
  <2>7. tested \subseteq Build
    BY DEF Init
  <2>8. packages \in 0..2
    BY DEF Init
  <2>9. QED
    BY <1>1, <2>1, <2>2, <2>3, <2>4, <2>5, <2>6, <2>7, <2>8 DEF BuilderInv, TypeOK
<1>3. OnlyTestedIsInstalled
  BY DEF Init, OnlyTestedIsInstalled, Build
<1>4. QED
  BY <1>1, <1>2, <1>3
  DEF Init, IInv, NothingLeft, SuccessMeansDone, CopyInsideFile, RunsOnAsset, ModeOfStep,
      BuiltAndTested, TemporaryFiles

\* Every step of the builder, the repository and the installer keeps it.
LEMMA InvStep == IInv /\ [Next]_vars => IInv'
<1> SUFFICES ASSUME IInv, [Next]_vars PROVE IInv'
  OBVIOUS
<1>1. CASE BuilderNext /\ UNCHANGED installer
  <2>1. BuilderInv'
    BY <1>1, ReadingSteps, WorkspaceSteps, ExportSteps, AssetSteps DEF BuilderNext, IInv
  <2>2. stage # "released"
    BY <1>1
    DEF BuilderNext, Step, read_epoch, diff, read_version, read_pin, output_directory,
        workspace, workspace_fails, archive_root, archive_common, common_manifest, pack,
        compile, write_run, write_run_fails, zip, extract, configure, fails, cleanup, Early,
        Late
  <2>3. QED BY <1>1, <2>1, <2>2, InstallerWaits
<1>2. CASE RepositoryMoves /\ UNCHANGED installer
  <2>1. BuilderInv' /\ stage # "released"
    BY <1>2, RepositoryStep DEF IInv, RepositoryMoves
  <2>2. QED BY <1>2, <2>1, InstallerWaits
<1>3. CASE InstallerNext
  BY <1>3, DownloadStep, PrepareSteps, CopyStep, CopyFailsStep, UnpackStep, BuildSteps,
     FailureStep, RemoveStep, KilledStep
  DEF InstallerNext
<1>4. CASE UNCHANGED vars
  <2>1. UNCHANGED <<repository, builder, stuck, installer>>
    BY <1>4 DEF vars
  <2>2. BuilderInv'
    BY <2>1, BuilderIsDone DEF IInv, BuilderInv, BuilderTypeOK
  <2>3. UNCHANGED <<stage, asset, mode, at, image, target, archive, tree, programs, tested,
                    packages, packaged, host, stuck>>
    BY <2>1 DEF builder, installer
  <2>4. TypeOK'
    BY <2>2, <2>3 DEF IInv, TypeOK, BuilderInv
  <2>5. NothingLeft' /\ SuccessMeansDone' /\ CopyInsideFile' /\ OnlyTestedIsInstalled'
    BY <2>3
    DEF IInv, NothingLeft, SuccessMeansDone, CopyInsideFile, OnlyTestedIsInstalled,
        payload_start, Size
  <2>6. RunsOnAsset' /\ ModeOfStep' /\ BuiltAndTested' /\ TemporaryFiles'
    BY <2>3 DEF IInv, RunsOnAsset, ModeOfStep, BuiltAndTested, TemporaryFiles
  <2>7. QED BY <2>2, <2>4, <2>5, <2>6 DEF IInv
<1>5. QED BY <1>1, <1>2, <1>3, <1>4 DEF Next

\* The inductive invariant holds throughout every behaviour.
THEOREM Invariance == Spec => []IInv
BY InvInit, InvStep, PTL DEF Spec

\* The assets of a build that reports success are one commit's, with its
\* VERSION, its time and the Common it pins, unless HEAD or the working tree moved
\* while they were being read (main of source-asset-builder.c).
THEOREM ReleaseIsOneCommit == Spec => []AssetIsOneCommit
<1>1. IInv => AssetIsOneCommit
  BY ReleasedAsset DEF IInv
<1>2. QED BY <1>1, Invariance, PTL

\* What copy_payload copies lies between the program and the footer, for words
\* of every size and every length a footer can state.
THEOREM CopyIsInside == Spec => []CopyInsideFile
<1>1. IInv => CopyInsideFile
  BY DEF IInv
<1>2. QED BY <1>1, Invariance, PTL

\* What reaches the system was built with the profile and passed its tests, after
\* the training build passed its own (main of native-installer.c).
THEOREM TestedBeforeInstalled == Spec => []OnlyTestedIsInstalled
<1>1. IInv => OnlyTestedIsInstalled
  BY DEF IInv
<1>2. QED BY <1>1, Invariance, PTL

\* However builder and installer end, nothing temporary is left that could be
\* removed, and success is reported only for what was asked.
THEOREM ReleaseIsAccountedFor == Spec => []ReleaseInvariant
<1>1. IInv => ReleaseInvariant
  BY DEF IInv, BuilderInv, ReleaseInvariant
<1>2. QED BY <1>1, Invariance, PTL
=============================================================================
