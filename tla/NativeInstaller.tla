--------------------------- MODULE NativeInstaller --------------------------
(***************************************************************************)
(* The native installer, run on an asset the release builder has made and  *)
(* that may have been damaged on its way.  It unpacks its payload, builds  *)
(* it twice in one build directory (to train the profile, then with it),   *)
(* tests both builds, packages the second and installs the package.  Every *)
(* command may fail; a failed build leaves the programs of the one before  *)
(* in place.  A signal may end the installer at any step.                  *)
(***************************************************************************)
EXTENDS SourceAssetBuilder

VARIABLES
  mode,                \* how it is called
  at,                  \* the step it is at
  image,               \* the file the user has
  target,              \* the directory given to --extract
  archive,             \* the temporary copy of the payload exists
  tree,                \* the temporary build directory
  programs,            \* what the build directory holds
  tested,              \* the programs that passed their tests
  packages,            \* how many packages there are
  packaged,            \* the programs in them
  host                 \* build prerequisites and what is installed

installer == <<mode, at, image, target, archive, tree, programs, tested, packages,
               packaged, host>>
vars == <<repository, builder, stuck, installer>>

Build == {"training", "optimised"}

TypeOK ==
  /\ BuilderTypeOK
  /\ mode \in {"install", "build-only", "extract"}
  /\ image \in Image \cup {None}
  /\ target \in {"absent", "users", "made", "filled"}
  /\ archive \in BOOLEAN /\ tree \in {"none", "empty", "source"}
  /\ programs \in Build \cup {None} /\ packaged \in Build \cup {None}
  /\ tested \subseteq Build
  /\ packages \in 0..2
  /\ host \in [tools : BOOLEAN, sudo : BOOLEAN, installed : {"before", "partly"} \cup Build]

Init ==
  /\ BuilderInit
  /\ mode \in {"install", "build-only", "extract"}
  /\ at = "waiting"
  /\ image = None
  /\ target \in IF mode = "extract" THEN {"absent", "users"} ELSE {"absent"}
  /\ archive = FALSE /\ tree = "none"
  /\ programs = None /\ tested = {} /\ packages = 0 /\ packaged = None
  /\ host \in [tools : BOOLEAN, sudo : BOOLEAN, installed : {"before"}]

-----------------------------------------------------------------------------
\* The asset is published and downloaded.
Download ==
  /\ stage = "released" /\ at = "waiting"
  /\ at' = IF mode = "extract" THEN "target" ELSE "prerequisites"
  /\ \/ image' = asset.image
     \/ \E n \in 0..(Word - 1) : image' = [asset.image EXCEPT !.claim = n]
     \/ image' = [asset.image EXCEPT !.footer = FALSE]
     \/ image' = [asset.image EXCEPT !.intact = FALSE]
  /\ UNCHANGED <<mode, target, archive, tree, programs, tested, packages, packaged, host, stuck>>

To(from, next) == at = from /\ at' = next

\* ensure_prerequisites
ensure_prerequisites ==
  /\ To("prerequisites", "checks")
  /\ host.tools \/ host.sudo
  /\ host' = [host EXCEPT !.tools = TRUE]
  /\ UNCHANGED <<mode, image, target, archive, tree, programs, tested, packages, packaged, stuck>>

\* sudo for the final installation, compiler_supports_gcc_pgo, mkdtemp
make_tree ==
  /\ To("checks", "copy")
  /\ mode = "install" => host.sudo
  /\ tree' = "empty"
  /\ UNCHANGED <<mode, image, target, archive, programs, tested, packages, packaged, host, stuck>>

\* --extract: mkdir of the directory the user names
make_target ==
  /\ To("target", "copy")
  /\ target = "absent"
  /\ target' = "made"
  /\ UNCHANGED <<mode, image, archive, tree, programs, tested, packages, packaged, host, stuck>>

\* copy_payload when it succeeds
copy ==
  /\ To("copy", "tar")
  /\ copy_payload(image)
  /\ archive' = TRUE
  /\ UNCHANGED <<mode, image, target, tree, programs, tested, packages, packaged, host, stuck>>

\* copy_payload when it fails, its own cleanup included
copy_fails ==
  /\ To("copy", "remove")
  /\ archive' \in BOOLEAN
  /\ stuck' = (stuck \/ archive')
  /\ UNCHANGED <<mode, image, target, tree, programs, tested, packages, packaged, host>>

\* Mutant: the copy is removed only when it has been unpacked.
unpack_keeps ==
  /\ \/ To("tar", "train") /\ Unpacks(image) /\ mode # "extract" /\ archive' = FALSE
        /\ tree' = "source" /\ UNCHANGED target
     \/ To("tar", "success") /\ Unpacks(image) /\ mode = "extract" /\ archive' = FALSE
        /\ target' = "filled" /\ UNCHANGED tree
     \/ To("tar", "remove") /\ UNCHANGED <<target, tree, archive>>
  /\ UNCHANGED <<mode, image, programs, tested, packages, packaged, host, stuck>>

\* extract_payload: tar, which may fail, and unlink, which may too
unpack ==
  /\ \/ To("tar", "train") /\ Unpacks(image) /\ mode # "extract"
        /\ tree' = "source" /\ UNCHANGED target
     \/ To("tar", "success") /\ Unpacks(image) /\ mode = "extract"
        /\ target' = "filled" /\ UNCHANGED tree
     \/ To("tar", "remove") /\ UNCHANGED <<target, tree>>
  /\ archive' \in BOOLEAN
  /\ stuck' = (stuck \/ archive')
  /\ UNCHANGED <<mode, image, programs, tested, packages, packaged, host>>

\* Mutant: whether the optimised build succeeds makes no difference.
build_unchecked ==
  /\ To("train", "train_test") \/ To("build", "test")
  /\ programs' \in IF at = "train" THEN {"training"} ELSE {programs, "optimised"}
  /\ UNCHANGED <<mode, image, target, archive, tree, tested, packages, packaged, host, stuck>>

\* cmake, cmake --build
build ==
  /\ To("train", "train_test") \/ To("build", "test")
  /\ programs' = IF at = "train" THEN "training" ELSE "optimised"
  /\ UNCHANGED <<mode, image, target, archive, tree, tested, packages, packaged, host, stuck>>

\* ctest
test ==
  /\ To("train_test", "build") \/ To("test", "cpack")
  /\ tested' = tested \cup {programs}
  /\ UNCHANGED <<mode, image, target, archive, tree, programs, packages, packaged, host, stuck>>

\* cpack, and find_debian_package, which wants one package and no more
package ==
  /\ To("cpack", IF mode = "install" THEN "apt" ELSE "done")
  /\ packages' = 1
  /\ packaged' = programs
  /\ UNCHANGED <<mode, image, target, archive, tree, programs, tested, host, stuck>>

\* sudo apt-get install
install ==
  /\ To("apt", "verify")
  /\ host' = [host EXCEPT !.installed = packaged]
  /\ UNCHANGED <<mode, image, target, archive, tree, programs, tested, packages, packaged, stuck>>

\* access() of both installed programs
verify ==
  /\ To("verify", "done")
  /\ UNCHANGED <<mode, image, target, archive, tree, programs, tested, packages, packaged,
                 host, stuck>>

\* A check or a command fails; apt-get may have done part of its work.
step_fails ==
  /\ \/ at \in {"prerequisites", "checks", "target"} /\ at' = "failed"
     \/ at \in {"train", "train_test", "build", "test", "cpack", "apt", "verify"} /\ at' = "remove"
  /\ packages' \in IF at = "cpack" THEN {0, 2} ELSE {packages}
  /\ host' \in IF at = "apt" THEN {host, [host EXCEPT !.installed = "partly"]} ELSE {host}
  /\ UNCHANGED <<mode, image, target, archive, tree, programs, tested, packaged, stuck>>

\* remove_tree, after a failure and at the end; it may fail itself.
remove ==
  /\ \/ at = "remove" /\ at' = "failed"
     \/ at = "done" /\ at' = "success"
  /\ \/ tree' = "none" /\ UNCHANGED stuck
        /\ target' = IF at = "remove" /\ mode = "extract" THEN "absent" ELSE target
     \/ stuck' = TRUE /\ UNCHANGED <<tree, target>>
  /\ UNCHANGED <<mode, image, archive, programs, tested, packages, packaged, host>>

\* SIGINT or SIGTERM, which nothing catches
killed ==
  /\ at \notin {"waiting", "failed", "success", "killed"}
  /\ at' = "killed"
  /\ UNCHANGED <<mode, image, target, archive, tree, programs, tested, packages, packaged,
                 host, stuck>>

InstallerNext ==
  /\ \/ Download \/ ensure_prerequisites \/ make_tree \/ make_target \/ copy \/ copy_fails
     \/ unpack \/ build \/ test \/ package \/ install \/ verify \/ step_fails \/ remove
     \/ killed
  /\ UNCHANGED <<repository, builder>>

Next ==
  \/ BuilderNext /\ UNCHANGED installer
  \/ RepositoryMoves /\ UNCHANGED installer
  \/ InstallerNext

Spec == Init /\ [][Next]_vars

-----------------------------------------------------------------------------
(* What must hold.                                                         *)

\* The payload that is copied ends where the footer begins and starts after
\* the program, for every length a footer can state: a sum that wraps round
\* passes the first check but never yields a copy.
CopyInsideFile ==
  at = "tar" =>
    /\ payload_start(image) > 0
    /\ payload_start(image) + image.claim = Size(image) - Footer

\* "a trained PGO generate/test/use cycle ... rather than silently producing a
\* weaker build": what reaches the system was built with the profile and
\* passed its tests, after the training build passed its own.
OnlyTestedIsInstalled ==
  host.installed \in Build => host.installed = "optimised" /\ tested = Build

\* A run that ends by itself leaves neither the copy of the payload nor the
\* build tree behind, nor a directory --extract could not fill, except what it
\* could not remove.
NothingLeft ==
  at \in {"failed", "success"} /\ ~stuck =>
    ~archive /\ tree = "none" /\ target # "made"

\* Success means what was asked for: the package is installed, or every file
\* of the released commit is in the directory.
SuccessMeansDone ==
  at = "success" =>
    CASE mode = "install" -> host.installed = "optimised"
      [] mode = "extract" -> target = "filled" /\ image.tree = asset.image.tree
      [] OTHER -> packaged = "optimised" /\ packages = 1


\* However builder and installer end, by success or by a failure at any step, what
\* they leave is accounted for: well typed, nothing temporary that could be
\* removed, and success only for what was asked.
ReleaseInvariant == TypeOK /\ NoWorkspaceLeft /\ NothingLeft /\ SuccessMeansDone
=============================================================================
