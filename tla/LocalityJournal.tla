-------------------------- MODULE LocalityJournal ---------------------------
(***************************************************************************)
(* A chosen place has two durable halves: its coordinates in the temporal  *)
(* policy (presentation.conf) and its name and time zone in location.ini.  *)
(* A change of place stages the new metadata in location.pending, commits  *)
(* the coordinates, publishes the staged metadata and removes the journal; *)
(* a failure after the commit rolls the policy back.  location.lock is     *)
(* held throughout, presentation.lock from before the commit to the end.   *)
(* The window (Gui) recovers what an earlier process left behind; the      *)
(* command-line tool (Cli) never does.                                     *)
(*                                                                         *)
(* Only the location of the policy appears here: DateTimeModel shows that  *)
(* edits of the other fields under presentation.lock preserve it.          *)
(*                                                                         *)
(* Definitions introduced by "Mutant:" are slips the properties must catch;*)
(* no other definition uses them.                                          *)
(***************************************************************************)
CONSTANTS
  Gui, Cli,            \* the two kinds of process
  NoProc,              \* nobody holds a lock
  Loc,                 \* coordinate pairs
  NoLoc,               \* a policy with location_configured = false
  Absent,              \* no policy file
  Unread,              \* the policy has not been read by this transaction
  Zone, NoZone,        \* IANA time zones; metadata without one
  Missing, Corrupt,    \* a metadata file that is not there, or is malformed
  Fault                \* which of "io", "late" and "crash" may happen

Proc == Gui \cup Cli
Metadata == [at : Loc, zone : Zone \cup {NoZone}]
Configured(c) == c \in Loc

ASSUME ProcAssumption == NoProc \notin Proc /\ Gui \cap Cli = {}
ASSUME LocAssumption ==
  NoLoc \notin Loc /\ Absent \notin Loc \cup {NoLoc} /\ Unread \notin Loc \cup {NoLoc, Absent}
ASSUME FileAssumption == Missing \notin Metadata /\ Corrupt \notin Metadata /\ Missing # Corrupt
ASSUME FaultAssumption == Fault \subseteq {"io", "late", "crash"}

VARIABLES
  conf,                \* location held by presentation.conf
  ini,                 \* location.ini
  pending,             \* location.pending, the journal
  zone,                \* time zone reported by timedated
  llock, plock,        \* holders of location.lock and presentation.lock
  pc,                  \* where each process is
  target,              \* the place it is setting (NoLoc clears)
  prev,                \* the policy's location when it took presentation.lock
  slips                \* history: what has happened that may cost a pair

vars == <<conf, ini, pending, zone, llock, plock, pc, target, prev, slips>>
files == <<conf, ini, pending>>
local == <<target, prev>>
others == <<zone, slips>>      \* what the steps of a transaction leave alone

Step ==
  {"idle", "lock_locality", "reload", "stage", "lock_policy", "load_policy", "save",
   "publish", "unjournal", "finish", "rollback", "discard",
   "lock_recovery", "recover", "recover_clear"}

TypeOK ==
  /\ conf \in Loc \cup {NoLoc, Absent}
  /\ ini \in Metadata \cup {Missing, Corrupt}
  /\ pending \in Metadata \cup {Missing, Corrupt}
  /\ zone \in Zone
  /\ llock \in Proc \cup {NoProc}
  /\ plock \in Proc \cup {NoProc}
  /\ pc \in [Proc -> Step]
  /\ target \in [Proc -> Loc \cup {NoLoc}]
  /\ prev \in [Proc -> Loc \cup {NoLoc, Absent, Unread}]
  /\ slips \subseteq {"restaged", "misreported"}

\* No place chosen (and perhaps damaged files), or a place whose two halves agree.
Init ==
  /\ \/ /\ conf \in {NoLoc, Absent}
        /\ ini \in {Missing, Corrupt}
     \/ \E m \in Metadata : ini = m /\ conf = m.at
  /\ pending \in {Missing, Corrupt}
  /\ zone \in Zone
  /\ llock = NoProc
  /\ plock = NoProc
  /\ pc = [p \in Proc |-> "idle"]
  /\ target = [p \in Proc |-> NoLoc]
  /\ prev = [p \in Proc |-> Unread]
  /\ slips = {}

-----------------------------------------------------------------------------
(* The files and the locks.                                                *)

\* What a failed write or removal leaves: the old content, or, when the
\* failure came after the directory entry changed, the new one.
Failed(old, new) == IF "late" \in Fault THEN {old, new} ELSE {old}

\* A removal whose failure the caller ignores.
RemoveJournal == pending' \in {Missing} \cup (IF "io" \in Fault THEN {pending} ELSE {})

Goto(p, to) == pc' = [pc EXCEPT ![p] = to]

\* Both locks are given back and the handler returns.
End(p) ==
  /\ llock' = NoProc
  /\ plock' = IF plock = p THEN NoProc ELSE plock
  /\ Goto(p, "idle")
  /\ target' = [target EXCEPT ![p] = NoLoc]
  /\ prev' = [prev EXCEPT ![p] = Unread]

\* The window gives the policy lock back before it discards its stage; the
\* command-line tool keeps it to the end.
ToDiscard(p) ==
  /\ Goto(p, "discard")
  /\ plock' = IF p \in Gui THEN NoProc ELSE plock
  /\ UNCHANGED <<llock, local>>

Describes(file, place) == file \in Metadata /\ file.at = place

\* A journal that recovery would finish, and location.ini does not say it yet.
Unfinished == Describes(pending, conf) /\ ~Describes(ini, conf)

\* History, forgotten when the next transaction is complete: an unfinished
\* journal has been overwritten, or a write reported as failed took effect.
Note(slip, happened) == slips' = IF happened THEN slips \cup {slip} ELSE slips

Misreport == Note("misreported", <<conf, ini>>' # <<conf, ini>>)

-----------------------------------------------------------------------------
(* A change of place.                                                      *)

\* on_location_result_activated and commit_location_coordinates; the tool's
\* --location and --clear-location.
ChoosePlace(p) ==
  /\ pc[p] = "idle"
  /\ \E l \in Loc \cup {NoLoc} :
       /\ p \in Gui => l \in Loc
       /\ target' = [target EXCEPT ![p] = l]
  /\ Goto(p, "lock_locality")
  /\ UNCHANGED <<files, others, llock, plock, prev>>

transaction_begin(p) ==
  /\ pc[p] \in {"lock_locality", "lock_recovery"}
  /\ llock = NoProc
  /\ llock' = p
  /\ Goto(p, IF pc[p] = "lock_recovery" THEN "recover"
             ELSE IF p \in Gui THEN "reload" ELSE "lock_policy")
  /\ UNCHANGED <<files, others, plock, local>>

\* Busy for the whole bounded wait, or an I/O error.
transaction_begin_fails(p) ==
  /\ pc[p] \in {"lock_locality", "lock_recovery"}
  /\ llock # NoProc \/ "io" \in Fault
  /\ Goto(p, "idle")
  /\ target' = [target EXCEPT ![p] = NoLoc]
  /\ UNCHANGED <<files, others, llock, plock, prev>>

load_authoritative_location_metadata(p) ==
  /\ pc[p] = "reload"
  /\ ini # Corrupt
  /\ Goto(p, "stage")
  /\ UNCHANGED <<files, others, llock, plock, local>>

load_authoritative_location_metadata_fails(p) ==
  /\ pc[p] = "reload"
  /\ ini = Corrupt \/ "io" \in Fault
  /\ End(p)
  /\ UNCHANGED <<files, others>>

\* The window records the system's time zone when it can read it.
Candidate(p) ==
  {[at |-> target[p], zone |-> z] : z \in IF p \in Gui THEN {zone, NoZone} ELSE {NoZone}}

stage(p) ==
  /\ pc[p] = "stage"
  /\ pending' \in Candidate(p)
  /\ Goto(p, IF p \in Gui THEN "lock_policy" ELSE "save")
  /\ Note("restaged", Unfinished)
  /\ UNCHANGED <<conf, ini, zone, llock, plock, local>>

stage_fails(p) ==
  /\ pc[p] = "stage" /\ "io" \in Fault
  /\ \E m \in Candidate(p) : pending' \in Failed(pending, m)
  /\ Note("restaged", Unfinished /\ pending' # pending)
  /\ End(p)
  /\ UNCHANGED <<conf, ini, zone>>

begin_update(p) ==
  /\ pc[p] = "lock_policy"
  /\ plock = NoProc
  /\ plock' = p
  /\ Goto(p, "load_policy")
  /\ UNCHANGED <<files, others, llock, local>>

begin_update_fails(p) ==
  /\ pc[p] = "lock_policy"
  /\ plock # NoProc \/ "io" \in Fault
  /\ IF p \in Gui
       THEN Goto(p, "discard") /\ UNCHANGED <<llock, plock, local>>
       ELSE End(p)
  /\ UNCHANGED <<files, others>>

\* Mutant: the policy to restore is not remembered.
load_policy_unrecorded(p) ==
  /\ pc[p] = "load_policy"
  /\ Goto(p, IF p \in Gui \/ target[p] = NoLoc THEN "save" ELSE "stage")
  /\ UNCHANGED <<files, others, llock, plock, local>>

load_policy(p) ==
  /\ pc[p] = "load_policy"
  /\ prev' = [prev EXCEPT ![p] = conf]
  /\ Goto(p, IF p \in Gui \/ target[p] = NoLoc THEN "save" ELSE "stage")
  /\ UNCHANGED <<files, others, llock, plock, target>>

load_policy_fails(p) ==
  /\ pc[p] = "load_policy" /\ "io" \in Fault
  /\ IF p \in Gui THEN ToDiscard(p) ELSE End(p)
  /\ UNCHANGED <<files, others>>

save(p) ==
  /\ pc[p] = "save"
  /\ conf' = target[p]
  /\ Goto(p, "publish")
  /\ UNCHANGED <<ini, pending, others, llock, plock, local>>

save_fails(p) ==
  /\ pc[p] = "save" /\ "io" \in Fault
  /\ conf' \in Failed(conf, target[p])
  /\ IF target[p] = NoLoc THEN End(p) ELSE ToDiscard(p)
  /\ UNCHANGED <<ini, pending, zone>>
  /\ Misreport

\* ss_location_metadata_finish_staged publishes the journal's record;
\* --clear-location removes location.ini instead.
Published(p) == IF target[p] = NoLoc THEN Missing ELSE pending

publish(p) ==
  /\ pc[p] = "publish"
  /\ target[p] # NoLoc => pending \in Metadata
  /\ ini' = Published(p)
  /\ Goto(p, IF target[p] = NoLoc THEN "finish" ELSE "unjournal")
  /\ UNCHANGED <<conf, pending, others, llock, plock, local>>

publish_fails(p) ==
  /\ pc[p] = "publish" /\ "io" \in Fault
  /\ ini' \in Failed(ini, Published(p))
  /\ Goto(p, "rollback")
  /\ UNCHANGED <<conf, pending, zone, llock, plock, local>>
  /\ Misreport

remove_journal(p) ==
  /\ pc[p] = "unjournal"
  /\ RemoveJournal
  /\ Goto(p, "finish")
  /\ UNCHANGED <<conf, ini, others, llock, plock, local>>

\* finish_location_update, then transaction_end
finish(p) ==
  /\ pc[p] = "finish"
  /\ slips' = {}
  /\ End(p)
  /\ UNCHANGED <<files, zone>>

\* Mutant: the rollback unsets the location instead of restoring it.
rollback_unsets(p) ==
  /\ pc[p] = "rollback"
  /\ conf' = NoLoc
  /\ IF target[p] = NoLoc THEN End(p) ELSE ToDiscard(p)
  /\ UNCHANGED <<ini, pending, others>>

\* The previous policy is saved again, or removed again if there was none.
rollback(p) ==
  /\ pc[p] = "rollback"
  /\ conf' = prev[p]
  /\ IF target[p] = NoLoc THEN End(p) ELSE ToDiscard(p)
  /\ UNCHANGED <<ini, pending, others>>

\* Mutant: the stage is discarded although the rollback failed.
rollback_fails_discarding(p) ==
  /\ pc[p] = "rollback" /\ "io" \in Fault
  /\ pending' = Missing
  /\ End(p)
  /\ UNCHANGED <<conf, ini, others>>

\* The journal stays for a later recovery.
rollback_fails(p) ==
  /\ pc[p] = "rollback" /\ "io" \in Fault
  /\ conf' \in Failed(conf, prev[p])
  /\ End(p)
  /\ UNCHANGED <<ini, pending, zone>>
  /\ Misreport

discard_staged(p) ==
  /\ pc[p] = "discard"
  /\ RemoveJournal
  /\ End(p)
  /\ UNCHANGED <<conf, ini, others>>

-----------------------------------------------------------------------------
(* ss_location_metadata_recover, run by the window when it starts, when    *)
(* the policy file changes, and again while a recovery is outstanding.     *)

recover(p) ==
  /\ p \in Gui /\ pc[p] = "idle"
  /\ Goto(p, "lock_recovery")
  /\ UNCHANGED <<files, others, llock, plock, local>>

\* Mutant: any readable journal is finished.
CompletesAny == pending \in Metadata

Completes == Describes(pending, conf)

\* The policy or the journal cannot be read: everything is left for a retry.
recover_reads_fail(p) ==
  /\ pc[p] = "recover" /\ "io" \in Fault
  /\ End(p)
  /\ UNCHANGED <<files, others>>

\* The journal belongs to the committed coordinates: finish it.
recover_completes(p) ==
  /\ pc[p] = "recover" /\ Completes
  /\ ini' = pending
  /\ Goto(p, "unjournal")
  /\ UNCHANGED <<conf, pending, others, llock, plock, local>>

recover_complete_fails(p) ==
  /\ pc[p] = "recover" /\ Completes /\ "io" \in Fault
  /\ ini' \in Failed(ini, pending)
  /\ End(p)
  /\ UNCHANGED <<conf, pending, others>>

\* An abandoned or unreadable stage is dropped, and with no place configured
\* so is the published metadata.
recover_discards(p) ==
  /\ pc[p] = "recover" /\ pending # Missing /\ ~Completes
  /\ pending' = Missing
  /\ IF Configured(conf) THEN End(p)
                         ELSE Goto(p, "recover_clear") /\ UNCHANGED <<llock, plock, local>>
  /\ UNCHANGED <<conf, ini, others>>

recover_discard_fails(p) ==
  /\ pc[p] = "recover" /\ pending # Missing /\ ~Completes /\ "io" \in Fault
  /\ pending' \in Failed(pending, Missing)
  /\ End(p)
  /\ UNCHANGED <<conf, ini, others>>

recover_clears(p) ==
  /\ \/ pc[p] = "recover_clear"
     \/ pc[p] = "recover" /\ pending = Missing /\ ~Configured(conf)
  /\ ini' \in {Missing} \cup (IF "io" \in Fault THEN {ini} ELSE {})
  /\ End(p)
  /\ UNCHANGED <<conf, pending, others>>

recover_finds_nothing(p) ==
  /\ pc[p] = "recover" /\ pending = Missing /\ Configured(conf)
  /\ End(p)
  /\ UNCHANGED <<files, others>>

-----------------------------------------------------------------------------
(* The environment.                                                        *)

\* A process dies; the kernel drops its locks, its files stay.
Crash(p) ==
  /\ "crash" \in Fault
  /\ pc[p] # "idle"
  /\ llock' = IF llock = p THEN NoProc ELSE llock
  /\ plock' = IF plock = p THEN NoProc ELSE plock
  /\ Goto(p, "idle")
  /\ target' = [target EXCEPT ![p] = NoLoc]
  /\ prev' = [prev EXCEPT ![p] = Unread]
  /\ UNCHANGED <<files, others>>

\* Any setter of another field creates the policy file if there was none.
OtherSetter ==
  /\ conf = Absent /\ plock = NoProc
  /\ conf' = NoLoc
  /\ UNCHANGED <<ini, pending, others, llock, plock, pc, local>>

ZoneChange ==
  /\ zone' \in Zone \ {zone}
  /\ UNCHANGED <<files, slips, llock, plock, pc, local>>

-----------------------------------------------------------------------------
Transaction(p) ==
  \/ ChoosePlace(p)
  \/ transaction_begin(p)
  \/ transaction_begin_fails(p)
  \/ load_authoritative_location_metadata(p)
  \/ load_authoritative_location_metadata_fails(p)
  \/ stage(p)
  \/ stage_fails(p)
  \/ begin_update(p)
  \/ begin_update_fails(p)
  \/ load_policy(p)
  \/ load_policy_fails(p)
  \/ save(p)
  \/ save_fails(p)
  \/ publish(p)
  \/ publish_fails(p)
  \/ remove_journal(p)
  \/ finish(p)
  \/ rollback(p)
  \/ rollback_fails(p)
  \/ discard_staged(p)

Recovery(p) ==
  \/ recover(p)
  \/ recover_reads_fail(p)
  \/ recover_completes(p)
  \/ recover_complete_fails(p)
  \/ recover_discards(p)
  \/ recover_discard_fails(p)
  \/ recover_clears(p)
  \/ recover_finds_nothing(p)

Next ==
  \/ \E p \in Proc : Transaction(p) \/ Recovery(p) \/ Crash(p)
  \/ OtherSetter
  \/ ZoneChange

Spec == Init /\ [][Next]_vars

-----------------------------------------------------------------------------
(* What must hold.                                                         *)

\* The configured place is described by location.ini or by the journal.
PairKept == Configured(conf) => Describes(ini, conf) \/ Describes(pending, conf)

\* "If the process dies after the policy commit but before metadata
\* publication, startup can finish the exact staged record rather than exposing
\* a mismatched pair" (on_location_result_activated).  At every instant, whoever
\* dies: no step of a transaction, a recovery, a failure or a crash makes a pair
\* unrecoverable, except staging a new record over a journal that was still
\* waiting to be finished, and a write of the policy or of location.ini that
\* reports failure although it has taken effect.
OnlySlipsLoseAPair == slips # {} \/ PairKept

\* location.ini never starts to describe a place the policy does not hold:
\* publication follows the commit, and recovery re-checks the coordinates.
MetadataFollowsPolicy ==
  [][ini' # ini /\ ini' \in Metadata => Describes(ini', conf')]_vars

\* After a rollback, and until the transaction ends, the policy holds the
\* place the transaction found, although the window no longer holds the policy
\* lock (rollback_location_update; a setter may have recreated the file),
\* unless the write that was reported as failed had taken effect.
SamePlace(a, b) == a = b \/ {a, b} = {NoLoc, Absent}

RollbackExact ==
  "misreported" \notin slips =>
    \A p \in Proc : pc[p] = "discard" /\ prev[p] # Unread => SamePlace(conf, prev[p])
=============================================================================
