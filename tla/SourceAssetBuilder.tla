------------------------- MODULE SourceAssetBuilder -------------------------
(***************************************************************************)
(* The release builder.  It checks that the working tree is HEAD and that  *)
(* Common is at the pinned commit, exports both from Git, packs them into  *)
(* an installer (the program, the payload and a footer that states the     *)
(* payload's length), and unpacks the result again before it reports       *)
(* success.  Every command it runs takes time, in which somebody may use   *)
(* the repository; any of them may fail.                                   *)
(*                                                                         *)
(* A length is a word of 2 * Half values, of which the lower half is what  *)
(* off_t can hold; a tree is known by the commits it was exported from.    *)
(***************************************************************************)
EXTENDS Integers

CONSTANTS
  Commit,              \* commits of the repository; each has its own VERSION
  CommonCommit,        \* commits of Common
  Pin,                 \* Pin[c]: the submodule commit that c records
  Edited,              \* a working tree with changes
  None,                \* nothing there
  Half,                \* half the values of uint64_t: 2^63
  Footer,              \* FOOTER_SIZE
  Length,              \* lengths of programs and payloads
  MaxMoves             \* bound on what happens in the repository

ASSUME WordAssumption == Half \in Nat /\ Footer \in 1..(Half - 1)
ASSUME LengthAssumption ==
  \A n, m \in Length : n \in Nat \ {0} /\ n + m + Footer < Half
ASSUME PinAssumption == Pin \in [Commit -> CommonCommit]
ASSUME OtherAssumption == Edited \notin Commit /\ None \notin Commit /\ MaxMoves \in Nat

Word == 2 * Half
Tree == [commit : Commit, common : CommonCommit, marker : CommonCommit, epoch : Commit]

\* A file that should be an installer.
Image == [program : Length, payload : Length, footer : BOOLEAN, claim : 0..(Word - 1),
          tree : Tree, intact : BOOLEAN]

-----------------------------------------------------------------------------
(* The payload of an installer.                                            *)

Size(image) == image.program + image.payload + Footer

\* (off_t)size
Signed(n) == IF n < Half THEN n ELSE n - Word

payload_start(image) == Size(image) - Footer - Signed(image.claim)

payload_bounds(image) ==
  /\ image.footer /\ image.claim # 0
  /\ Size(image) >= (image.claim + Footer) % Word
  /\ payload_start(image) > 0

\* Mutant: the end of the file ends the copy.
copy_payload_short(image) == payload_bounds(image)

\* The bytes from payload_start on, as many as claimed: a read that meets the
\* end of the file fails.
copy_payload(image) ==
  payload_bounds(image) /\ payload_start(image) + image.claim <= Size(image)

\* tar: only the archive itself unpacks.
Unpacks(image) ==
  image.intact /\ payload_start(image) = image.program /\ image.claim = image.payload

-----------------------------------------------------------------------------
VARIABLES
  head,                \* HEAD
  worktree,            \* the commit the working tree equals, or Edited
  common,              \* HEAD of the Common checkout
  moves,               \* history: what has happened in the repository
  stage,               \* the step the builder is at
  read,                \* source_epoch, version and pin, as far as read
  export,              \* source_root
  payload,             \* source.tar.gz
  work,                \* the temporary workspace exists
  asset,               \* the .run file in the output directory
  mixed,               \* history: the repository moved while it was being read
  stuck                \* history: something temporary could not be removed

repository == <<head, worktree, common, moves>>
builder == <<stage, read, export, payload, work, asset, mixed>>

BuilderTypeOK ==
  /\ head \in Commit /\ worktree \in Commit \cup {Edited} /\ common \in CommonCommit
  /\ moves \in 0..MaxMoves
  /\ read \in [epoch : Commit \cup {None}, version : Commit \cup {Edited, None},
               pin : CommonCommit \cup {None}]
  /\ export \in [commit : Commit \cup {None}, common : CommonCommit \cup {None},
                 marker : CommonCommit \cup {None}]
  /\ payload \in Tree \cup {None}
  /\ work \in BOOLEAN /\ mixed \in BOOLEAN /\ stuck \in BOOLEAN
  /\ asset = None \/ (asset.image \in Image /\ asset.version \in Commit \cup {Edited})

BuilderInit ==
  /\ head \in Commit /\ worktree \in {head, Edited} /\ common \in CommonCommit
  /\ moves = 0
  /\ stage = "epoch"
  /\ read = [epoch |-> None, version |-> None, pin |-> None]
  /\ export = [commit |-> None, common |-> None, marker |-> None]
  /\ payload = None
  /\ work = FALSE
  /\ asset = None
  /\ mixed = FALSE /\ stuck = FALSE

\* What HEAD and the working tree are read for.
Reading == {"diff", "version", "pin", "output", "workspace", "archive"}

\* While the builder runs, somebody commits, checks out, edits, or updates the
\* submodule.
RepositoryMoves ==
  /\ stage \notin {"failed", "released"}
  /\ moves < MaxMoves /\ moves' = moves + 1
  /\ \/ head' \in Commit /\ worktree' = head' /\ UNCHANGED common
     \/ worktree' = Edited /\ UNCHANGED <<head, common>>
     \/ common' \in CommonCommit /\ UNCHANGED <<head, worktree>>
  /\ mixed' = (mixed \/ (stage \in Reading /\ <<head, worktree>>' # <<head, worktree>>))
  /\ UNCHANGED <<stage, read, export, payload, work, asset, stuck>>

-----------------------------------------------------------------------------
(* main.  A step that fails before the workspace exists ends the builder;  *)
(* a later one goes to cleanup.                                            *)

Step(from, to) == stage = from /\ stage' = to

read_epoch ==
  /\ Step("epoch", "diff")
  /\ read' = [read EXCEPT !.epoch = head]
  /\ UNCHANGED <<export, payload, work, asset, stuck>>

\* git diff --quiet HEAD
diff ==
  /\ Step("diff", "version")
  /\ worktree = head
  /\ UNCHANGED <<read, export, payload, work, asset, stuck>>

\* VERSION of the working tree
read_version ==
  /\ Step("version", "pin")
  /\ read' = [read EXCEPT !.version = worktree]
  /\ UNCHANGED <<export, payload, work, asset, stuck>>

read_pin ==
  /\ Step("pin", "output")
  /\ common = Pin[head]
  /\ read' = [read EXCEPT !.pin = Pin[head]]
  /\ UNCHANGED <<export, payload, work, asset, stuck>>

output_directory ==
  /\ Step("output", "workspace")
  /\ UNCHANGED <<read, export, payload, work, asset, stuck>>

\* mkdtemp, and the directories under it
workspace ==
  /\ Step("workspace", "archive")
  /\ work' = TRUE
  /\ UNCHANGED <<read, export, payload, asset, stuck>>

\* The workspace is made but not the source directory in it: fail() leaves
\* the workspace behind.
workspace_fails ==
  /\ Step("workspace", "failed")
  /\ work' \in BOOLEAN
  /\ stuck' = (stuck \/ work')
  /\ UNCHANGED <<read, export, payload, asset>>

\* git archive HEAD, and tar
archive_root ==
  /\ Step("archive", "archive_common")
  /\ export' = [export EXCEPT !.commit = head]
  /\ UNCHANGED <<read, payload, work, asset, stuck>>

\* Mutant: Common is exported as it is checked out.
archive_common_head ==
  /\ Step("archive_common", "manifest")
  /\ export' = [export EXCEPT !.common = common]
  /\ UNCHANGED <<read, payload, work, asset, stuck>>

\* git archive of the pinned commit, and tar
archive_common ==
  /\ Step("archive_common", "manifest")
  /\ export' = [export EXCEPT !.common = read.pin]
  /\ UNCHANGED <<read, payload, work, asset, stuck>>

\* The commit marker and write_common_manifest
common_manifest ==
  /\ Step("manifest", "payload")
  /\ export' = [export EXCEPT !.marker = read.pin]
  /\ UNCHANGED <<read, payload, work, asset, stuck>>

\* Every file of the export gets the time of the release commit.
normalize_tree_times(epoch) ==
  [commit |-> export.commit, common |-> export.common, marker |-> export.marker,
   epoch |-> epoch]

\* normalize_tree_times, and tar
pack ==
  /\ Step("payload", "compile")
  /\ payload' = normalize_tree_times(read.epoch)
  /\ UNCHANGED <<read, export, work, asset, stuck>>

compile ==
  /\ Step("compile", "run")
  /\ UNCHANGED <<read, export, payload, work, asset, stuck>>

\* The program, the payload and "SSPAYLOAD=" with the payload's length; or, not
\* whole, a part of that without a footer.
Written(whole) ==
  \E n, m \in Length :
    asset' = [version |-> read.version,
              image |-> [program |-> n, payload |-> m, footer |-> whole,
                         claim |-> IF whole THEN m ELSE 0,
                         tree |-> payload, intact |-> whole]]

write_run ==
  /\ Step("run", "zip")
  /\ Written(TRUE)
  /\ UNCHANGED <<read, export, payload, work, stuck>>

\* The file cannot be made, is written in part, or is written but not flushed,
\* closed or made executable without an error.
write_run_fails ==
  /\ Step("run", "cleanup")
  /\ UNCHANGED asset \/ \E whole \in BOOLEAN : Written(whole)
  /\ UNCHANGED <<read, export, payload, work, stuck>>

zip ==
  /\ Step("zip", "extract")
  /\ UNCHANGED <<read, export, payload, work, asset, stuck>>

\* The same files with the same contents; times are not compared.
trees_equal(tree) ==
  [commit |-> tree.commit, common |-> tree.common, marker |-> tree.marker] = export

\* readelf, --help, --extract, and trees_equal with source_root
extract ==
  /\ Step("extract", "configure")
  /\ copy_payload(asset.image) /\ Unpacks(asset.image)
  /\ trees_equal(asset.image.tree)
  /\ UNCHANGED <<read, export, payload, work, asset, stuck>>

\* CMake accepts an exported Common whose marker and manifest fit.
configure ==
  /\ Step("configure", "done")
  /\ UNCHANGED <<read, export, payload, work, asset, stuck>>

Early == {"epoch", "diff", "version", "pin", "output"}
Late == {"archive", "archive_common", "manifest", "payload", "compile", "zip", "extract", "configure"}

\* A check or a command fails.
fails ==
  /\ \/ stage \in Early /\ stage' = "failed"
     \/ stage \in Late /\ stage' = "cleanup"
  /\ UNCHANGED <<read, export, payload, work, asset, stuck>>

\* The workspace is gone, or a warning says that it is not.
remove_tree == work' \in BOOLEAN /\ stuck' = (stuck \/ work')

\* cleanup after a failure, and after success
cleanup ==
  /\ stage \in {"cleanup", "done"}
  /\ stage' = IF stage = "done" THEN "released" ELSE "failed"
  /\ remove_tree
  /\ UNCHANGED <<read, export, payload, asset>>

BuilderNext ==
  /\ \/ read_epoch \/ diff \/ read_version \/ read_pin \/ output_directory
     \/ workspace \/ workspace_fails
     \/ archive_root \/ archive_common \/ common_manifest \/ pack \/ compile
     \/ write_run \/ write_run_fails \/ zip \/ extract \/ configure
     \/ fails \/ cleanup
  /\ UNCHANGED <<repository, mixed>>

-----------------------------------------------------------------------------
(* What must hold.                                                         *)

\* "Exports exact Git HEAD plus pinned Common": the assets of a build that
\* reports success are one commit's, with its VERSION, its timestamp and the
\* Common it pins, whatever happens to the Common checkout and to the working
\* tree meanwhile.  Only a HEAD or a working tree that moves while they are
\* being read can mix two commits.
AssetIsOneCommit ==
  stage = "released" /\ ~mixed =>
    \E c \in Commit :
      /\ asset.version = c
      /\ asset.image.tree = [commit |-> c, common |-> Pin[c], marker |-> Pin[c], epoch |-> c]

\* However the builder ends, a workspace is left only if it could not be removed
\* or if the directory in it could not be made.
NoWorkspaceLeft == stage \in {"failed", "released"} /\ ~stuck => ~work
=============================================================================
