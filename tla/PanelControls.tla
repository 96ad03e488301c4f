--------------------------- MODULE PanelControls ----------------------------
(***************************************************************************)
(* The Date & Time panel's own event handling around a place: the two spin *)
(* buttons with their 300 ms commit timer, the locality search with its    *)
(* generations, the file events of presentation.conf and location.ini, the *)
(* timer that retries an interrupted locality recovery, changes of the     *)
(* system time zone with its reference point, and the Cinnamon date format *)
(* controls.                                                               *)
(*                                                                         *)
(* The panel runs on one main loop, so each handler is one action; another *)
(* process (a second window, the command-line tool) interleaves with it    *)
(* and may die half-way through its own change of place.  The steps inside *)
(* the panel's own transaction are LocalityJournal's, the reconciliation   *)
(* of the clock is NativeClockSync's, and what a directory watch can miss  *)
(* is PolicyFileObserver's; here a file event is delayed, never lost.      *)
(*                                                                         *)
(* Definitions introduced by "Mutant:" are slips the properties must catch;*)
(* no other definition uses them.                                          *)
(***************************************************************************)
EXTENDS Naturals

CONSTANTS
  Place,               \* coordinate pairs
  Origin,              \* the pair the spin buttons are created with
  Reference,           \* the reference points of the time zones; None is among
                       \* them when there is a zone without one
  Unset,               \* a policy without a configured location
  None,                \* no metadata, no journal, nobody, no rows, no reference
  MaxMoves,            \* bound: steps of the user and of other programs
  MaxFaults            \* bound: reads and writes that fail

Metadata == [at : Place, name : {"found", "custom"}]

ASSUME PlaceAssumption == Origin \in Place /\ Unset \notin Place
ASSUME ReferenceAssumption == Reference \subseteq Place \cup {None}
ASSUME NoneAssumption == None \notin Metadata \cup Place
ASSUME BoundAssumption == MaxMoves \in Nat /\ MaxFaults \in Nat

VARIABLES
  conf, ini, journal,  \* coordinates in presentation.conf, location.ini, location.pending
  other,               \* the other process's transaction: its target and its phase
  events,              \* file and settings changes the main loop has not handled
  panel,               \* "none", "open" or "freed"
  place, meta,         \* the model's coordinates, and location.metadata
  reference,           \* the reference point in regional_context, or None
  spin, timer,         \* the spin buttons, and coordinate_commit_id # 0
  typed, refilled,     \* history: last value typed; filled by code under a timer
  outdated,            \* history: the reference point has changed since sync_controls
  generation, inflight, rows,      \* search_generation, unanswered searches, result rows
  recovery_failed, retry,          \* and recovery_retry_id # 0
  skipped,             \* history: the panel opened without scheduling its retry
  unread,              \* history: files whose last change could not be read
  desktop, shown,      \* clock-show-date in Cinnamon, and the switch
  moves, faults

files == <<conf, ini, journal>>
believed == <<place, meta, unread>>
edit == <<spin, timer, typed, refilled, outdated>>
search == <<generation, inflight, rows>>
recovery == <<recovery_failed, retry, skipped>>
format == <<desktop, shown>>
vars == <<files, other, events, panel, believed, reference, edit, search, recovery, format,
          moves, faults>>

TypeOK ==
  /\ conf \in Place \cup {Unset}
  /\ ini \in Metadata \cup {None}
  /\ journal \in Metadata \cup {None}
  /\ other \in [to : Place \cup {Unset}, phase : {"staged", "saved"}] \cup {None}
  /\ events \subseteq {"policy", "metadata", "format"}
  /\ panel \in {"none", "open", "freed"}
  /\ place \in Place \cup {Unset}
  /\ meta \in Metadata \cup {None}
  /\ spin \in Place /\ typed \in Place
  /\ reference \in Reference
  /\ {timer, refilled, outdated} \subseteq BOOLEAN
  /\ generation \in 0..MaxMoves
  /\ inflight \subseteq 1..generation
  /\ rows \in [of : 1..MaxMoves, at : Place] \cup {None}
  /\ {recovery_failed, retry, skipped} \subseteq BOOLEAN
  /\ unread \subseteq {"policy", "metadata"}
  /\ desktop \in BOOLEAN /\ shown \in BOOLEAN
  /\ moves \in 0..MaxMoves /\ faults \in 0..MaxFaults

Found(c) == [at |-> c, name |-> "found"]
Custom(c) == [at |-> c, name |-> "custom"]

\* No place, or one whose two halves agree; the panel has not been created.
Init ==
  /\ \/ conf = Unset /\ ini = None
     \/ \E c \in Place : conf = c /\ ini = Found(c)
  /\ journal = None
  /\ other = None
  /\ events = {}
  /\ panel = "none"
  /\ place = Unset /\ meta = None /\ unread = {}
  /\ reference \in Reference
  /\ spin = Origin /\ typed = Origin
  /\ timer = FALSE /\ refilled = FALSE /\ outdated = FALSE
  /\ generation = 0 /\ inflight = {} /\ rows = None
  /\ recovery_failed = FALSE /\ retry = FALSE /\ skipped = FALSE
  /\ desktop = TRUE /\ shown = TRUE
  /\ moves = 0 /\ faults = 0

-----------------------------------------------------------------------------
(* Helpers.                                                                *)

Open == panel = "open"
Move == moves < MaxMoves /\ moves' = moves + 1
Fault == faults < MaxFaults /\ faults' = faults + 1
Works == UNCHANGED faults

\* Mutant: the value handler does not look at location.updating_controls.
Fill_unguarded(c, pending) ==
  /\ spin' = c
  /\ timer' = (pending \/ c # spin)
  /\ refilled' = pending
  /\ outdated' = FALSE
  /\ UNCHANGED typed

\* The code writes the spin buttons: updating_controls keeps the value handler
\* from starting a commit, and a commit already pending stays pending.
Fill(c, pending) ==
  /\ spin' = c
  /\ timer' = pending
  /\ refilled' = pending
  /\ outdated' = FALSE
  /\ UNCHANGED typed

sync_native_format_controls == shown' = desktop

\* Without a configured location the reference point is shown; in a zone that has
\* none the spin buttons keep what they hold.
sync_controls(pending) ==
  /\ \/ place' # Unset /\ Fill(place', pending)
     \/ place' = Unset /\ reference # None /\ Fill(reference, pending)
     \/ /\ place' = Unset /\ reference = None
        /\ timer' = pending
        /\ refilled' = (pending /\ refilled)
        /\ outdated' = FALSE
        /\ UNCHANGED <<spin, typed>>
  /\ sync_native_format_controls

\* Mutant: a journal whose policy is already committed is left alone.
recover_unpublished ==
  /\ other = None
  /\ ini' = IF conf = Unset THEN None ELSE ini
  /\ journal' = IF journal # None /\ journal.at = conf THEN journal ELSE None
  /\ UNCHANGED conf

\* ss_location_metadata_recover under the locality lock: finish a journal that
\* belongs to the committed coordinates, drop any other.
recover ==
  /\ other = None
  /\ ini' = IF journal # None /\ journal.at = conf THEN journal
             ELSE IF conf = Unset THEN None ELSE ini
  /\ journal' = None
  /\ UNCHANGED conf

\* The lock is busy, or a file cannot be read or written.
recover_fails ==
  /\ \/ other # None /\ Works
     \/ other = None /\ Fault
  /\ UNCHANGED files

\* The events left after handling e; a write of location.ini is announced.
Handled(e) == (events \ {e}) \cup (IF ini' # ini THEN {"metadata"} ELSE {})

\* Reads location.ini as it is now, or keeps the last known record.
LoadMetadata ==
  \/ meta' = ini' /\ unread' = unread \ {"metadata"} /\ Works
  \/ UNCHANGED meta /\ unread' = unread \cup {"metadata"} /\ Fault

-----------------------------------------------------------------------------
(* Opening and closing.                                                    *)

\* A retry is scheduled unless the status line reports a failed migration of a
\* legacy clock mode instead.  location.ini may be unreadable (which happens once
\* at most, and is not counted).
ss_linux_date_time_panel_new ==
  /\ panel = "none"
  /\ panel' = "open"
  /\ place' = conf
  /\ \/ recover /\ recovery_failed' = FALSE /\ Works
     \/ recover_fails /\ recovery_failed' = TRUE
  /\ \/ meta' = ini' /\ unread' = {}
     \/ meta' = None /\ unread' = {"metadata"}
  /\ sync_controls(FALSE)
  /\ skipped' \in {FALSE, recovery_failed'}
  /\ retry' = (recovery_failed' /\ ~skipped')
  /\ UNCHANGED <<other, events, reference, search, desktop, moves>>

\* The lifetime is invalidated, both timers and both observers are removed.
ss_linux_date_time_panel_free ==
  /\ Open
  /\ panel' = "freed"
  /\ timer' = FALSE /\ refilled' = FALSE
  /\ retry' = FALSE
  /\ events' = {} /\ rows' = None
  /\ UNCHANGED <<files, other, believed, reference, spin, typed, outdated, generation, inflight,
                 recovery_failed, skipped, format, moves, faults>>

-----------------------------------------------------------------------------
(* File events and the recovery retry.                                     *)

\* schedule_locality_recovery_retry, or the removal of the timer.
Reschedule(failed) == recovery_failed' = failed /\ retry' = failed

\* A pending commit is cancelled first, whatever follows.
policy_file_changed ==
  /\ Open /\ "policy" \in events
  /\ place' = conf
  /\ \/ /\ recover
        /\ Reschedule(FALSE)
        /\ \/ meta' = ini' /\ unread' = {} /\ Works
           \/ UNCHANGED meta /\ unread' = {"metadata"} /\ Fault
     \/ /\ recover_fails
        /\ Reschedule(TRUE)
        /\ unread' = unread \ {"policy"}
        /\ UNCHANGED meta
  /\ events' = Handled("policy")
  /\ sync_controls(FALSE)
  /\ UNCHANGED <<other, panel, reference, search, skipped, desktop, moves>>

\* The policy cannot be reloaded: the controls stay as they are.
policy_file_unreadable ==
  /\ Open /\ "policy" \in events
  /\ Fault
  /\ events' = events \ {"policy"}
  /\ unread' = unread \cup {"policy"}
  /\ timer' = FALSE /\ refilled' = FALSE
  /\ UNCHANGED <<files, other, panel, place, meta, reference, spin, typed, outdated, search,
                 recovery, format, moves>>

\* The controls are filled again, and a pending commit is not cancelled.
location_metadata_file_changed ==
  /\ Open /\ "metadata" \in events
  /\ events' = events \ {"metadata"}
  /\ UNCHANGED <<files, place>>
  /\ LoadMetadata
  /\ sync_controls(timer)
  /\ UNCHANGED <<other, panel, reference, search, recovery, desktop, moves>>

retry_locality_recovery ==
  /\ Open /\ retry
  /\ UNCHANGED place
  /\ \/ /\ recover
        /\ Reschedule(FALSE)
        /\ LoadMetadata
        /\ sync_controls(timer)
     \/ /\ recover_fails
        /\ Reschedule(TRUE)
        /\ UNCHANGED <<meta, unread, edit, shown>>
  /\ events' = Handled("none")
  /\ UNCHANGED <<other, panel, reference, search, skipped, desktop, moves>>

-----------------------------------------------------------------------------
(* The panel's own transactions (LocalityJournal has their steps).         *)

\* Both halves saved; the panel's own observers will see it.
Save(m) ==
  /\ other = None
  /\ conf' = m.at /\ ini' = m /\ journal' = None
  /\ place' = m.at /\ meta' = m /\ unread' = {}
  /\ events' = events \cup {"policy", "metadata"}
  /\ Works

\* The place m is not taken.  Before the stage nothing has changed; after it the
\* record in memory is the one on disk.  A saved policy is rolled back when m cannot
\* be published, and announced; if that fails too the policy holds m, and its
\* journal is kept.
SaveFails(step, m) ==
  /\ \/ step = "lock" /\ other # None /\ Works
     \/ other = None /\ Fault
  /\ meta' = IF step = "lock" THEN meta ELSE ini
  /\ unread' = IF step = "lock" THEN unread ELSE unread \ {"metadata"}
  /\ journal' = IF step \in {"lock", "stage"} THEN journal
                ELSE IF step = "rollback" THEN m ELSE None
  /\ events' = IF step \in {"publish", "rollback"} THEN events \cup {"policy"} ELSE events
  /\ IF step = "rollback" THEN conf' = m.at /\ place' = m.at ELSE UNCHANGED <<conf, place>>
  /\ UNCHANGED ini

Steps == {"lock", "stage", "save", "publish", "rollback"}

\* The user turns a spin button: the 300 ms start again.
on_location_coordinate_changed ==
  /\ Open /\ Move
  /\ \E c \in Place \ {spin} : spin' = c /\ typed' = c
  /\ timer' = TRUE
  /\ refilled' = FALSE
  /\ UNCHANGED <<files, other, events, panel, believed, reference, outdated, search, recovery,
                 format, faults>>

commit_location_coordinates ==
  /\ Open /\ timer
  /\ Save(Custom(spin))
  /\ timer' = FALSE /\ refilled' = FALSE
  /\ sync_native_format_controls
  /\ UNCHANGED <<other, panel, reference, spin, typed, outdated, search, recovery,
                 desktop, moves>>

\* Mutant: the controls are not put back.
commit_location_coordinates_fails_silently ==
  /\ Open /\ timer
  /\ \E step \in Steps : SaveFails(step, Custom(spin))
  /\ timer' = FALSE /\ refilled' = FALSE
  /\ UNCHANGED <<other, panel, reference, spin, typed, outdated, search, recovery,
                 format, moves>>

\* The controls go back to the policy.
commit_location_coordinates_fails ==
  /\ Open /\ timer
  /\ \E step \in Steps : SaveFails(step, Custom(spin))
  /\ sync_controls(FALSE)
  /\ UNCHANGED <<other, panel, reference, search, recovery, desktop, moves>>

\* A pending commit of typed coordinates is not cancelled.
on_location_result_activated ==
  /\ Open /\ rows # None /\ Move
  /\ Save(Found(rows.at))
  /\ Fill(rows.at, timer)
  /\ sync_native_format_controls
  /\ rows' = None
  /\ UNCHANGED <<other, panel, reference, generation, inflight, recovery, desktop>>

on_location_result_activated_fails ==
  /\ Open /\ rows # None /\ Move
  /\ \E step \in Steps :
       /\ SaveFails(step, Found(rows.at))
       /\ IF step \in {"publish", "rollback"} THEN sync_controls(timer)
          ELSE UNCHANGED <<edit, shown>>
  /\ UNCHANGED <<other, panel, reference, search, recovery, desktop>>

\* A clock, calendar or seconds control, or a Cinnamon clock key being
\* reconciled, saves the policy as it is on disk with one other field changed;
\* only the reconciliation fills the controls again.
SaveOtherField ==
  /\ Open /\ Move
  /\ place' = conf
  /\ unread' = unread \ {"policy"}
  /\ events' = events \cup {"policy"}
  /\ \/ UNCHANGED edit /\ sync_native_format_controls
     \/ sync_controls(timer)
  /\ UNCHANGED <<files, other, panel, meta, reference, search, recovery, desktop, faults>>

-----------------------------------------------------------------------------
(* Changes of the system time (LocalityReconcile has their steps).         *)

\* regional_context is detected anew and the controls are left alone: an operation
\* of the panel was applied, or a reconciliation found its zone unchanged and no
\* reference point to follow, did not get the locality lock, or could read neither
\* file.
system_time_operation_applied ==
  /\ Open /\ Move
  /\ reference' \in Reference \ {reference}
  /\ outdated' = TRUE
  /\ UNCHANGED <<files, other, events, panel, believed, spin, timer, typed, refilled, search,
                 recovery, format, faults>>

\* ss_linux_date_time_location_metadata_matches_policy
Describes(m, c) == m # None /\ m.at = c

\* The place is left alone: it is the user's own, the zone has no reference point,
\* the service and the region name different zones, or the save failed.  The record
\* of the user's place may get the name of the new zone.
KeepPlace ==
  /\ \/ UNCHANGED <<ini, events>>
     \/ /\ Describes(meta', conf) /\ place' = conf
        /\ ini' = meta'
        /\ events' = events \cup {"metadata"}
  /\ outdated' = (outdated \/ reference' # reference)
  /\ UNCHANGED <<conf, spin, timer, typed, refilled>>

\* A place nobody has chosen becomes, or already is, the new reference point.
PublishReference ==
  /\ reference' # None
  /\ "metadata" \notin unread
  /\ conf \in {Unset, reference'} /\ ~Describes(meta', conf)
  /\ conf' = reference' /\ place' = reference'
  /\ events' = IF conf' = conf THEN events ELSE events \cup {"policy"}
  /\ Fill(reference', timer)
  /\ UNCHANGED ini

\* timedated has announced a change: region, policy and metadata are read again
\* under the locality lock.  Either read may fail (each is part of a move, and needs
\* no bound of its own).
ss_linux_date_time_panel_reconcile_system_time_change ==
  /\ Open /\ Move
  /\ other = None
  /\ reference' \in Reference
  /\ meta' \in {ini, meta}
  /\ \/ place' \in {conf, place} /\ KeepPlace
     \/ PublishReference
  /\ UNCHANGED <<journal, other, panel, unread, search, recovery, format, faults>>

-----------------------------------------------------------------------------
(* The search.                                                             *)

\* A search that has begun completes once, whatever becomes of the panel.
ss_location_search_async(g) == inflight' = inflight \cup {g}

begin_location_search ==
  /\ Open /\ Move
  /\ generation' = generation + 1
  /\ ss_location_search_async(generation + 1)
  /\ rows' = None
  /\ UNCHANGED <<files, other, events, panel, believed, reference, edit, recovery,
                 format, faults>>

\* Mutant: an answer is shown whatever search it belongs to.
Wanted_any(g) == Open

\* The panel is alive and has not searched again since.
Wanted(g) == Open /\ g = generation

\* What an answer brings: places, those with impossible coordinates dropped, or
\* nothing.
search_finished(g) == [of : {g}, at : Place] \cup {None}

\* Answers, failures and cancelled searches arrive in any order.
location_search_complete ==
  \E g \in inflight :
    /\ inflight' = inflight \ {g}
    /\ rows' \in IF Wanted(g) THEN search_finished(g) ELSE {rows}
    /\ UNCHANGED <<files, other, events, panel, believed, reference, edit, generation, recovery,
                   format, moves, faults>>

-----------------------------------------------------------------------------
(* The date format controls.                                               *)

on_cinnamon_interface_changed ==
  /\ Open /\ "format" \in events
  /\ events' = events \ {"format"}
  /\ sync_native_format_controls
  /\ UNCHANGED <<files, other, panel, believed, reference, edit, search, recovery,
                 desktop, moves, faults>>

on_show_date_changed ==
  /\ Open /\ Move
  /\ desktop' = ~shown /\ shown' = ~shown
  /\ events' = events \cup {"format"}
  /\ UNCHANGED <<files, other, panel, believed, reference, edit, search, recovery, faults>>

on_show_date_changed_fails ==
  /\ Open /\ Move /\ Fault
  /\ sync_native_format_controls
  /\ UNCHANGED <<files, other, events, panel, believed, reference, edit, search,
                 recovery, desktop>>

-----------------------------------------------------------------------------
(* Other programs.                                                         *)

Announce(e) == events' = IF Open THEN events \cup {e} ELSE events

ChangeDesktop ==
  /\ Move
  /\ desktop' = ~desktop
  /\ Announce("format")
  /\ UNCHANGED <<files, other, panel, believed, reference, edit, search, recovery, shown,
                 faults>>

\* The other process takes the locality lock and stages its place; clearing
\* the location needs no journal.
OtherStages ==
  /\ other = None /\ Move
  /\ \E c \in Place \cup {Unset} :
       /\ other' = [to |-> c, phase |-> "staged"]
       /\ journal' = IF c = Unset THEN journal ELSE Found(c)
  /\ UNCHANGED <<conf, ini, events, panel, believed, reference, edit, search, recovery,
                 format, faults>>

OtherSaves ==
  /\ other # None /\ other.phase = "staged"
  /\ conf' = other.to
  /\ other' = [other EXCEPT !.phase = "saved"]
  /\ Announce("policy")
  /\ UNCHANGED <<ini, journal, panel, believed, reference, edit, search, recovery,
                 format, moves, faults>>

OtherPublishes ==
  /\ other # None /\ other.phase = "saved"
  /\ ini' = IF other.to = Unset THEN None ELSE journal
  /\ journal' = IF other.to = Unset THEN journal ELSE None
  /\ other' = None
  /\ Announce("metadata")
  /\ UNCHANGED <<conf, panel, believed, reference, edit, search, recovery, format, moves,
                 faults>>

\* The kernel gives the lock back.
OtherCrashes ==
  /\ other # None
  /\ other' = None
  /\ UNCHANGED <<files, events, panel, believed, reference, edit, search, recovery,
                 format, moves, faults>>

-----------------------------------------------------------------------------
PanelHandler ==
  \/ policy_file_changed
  \/ policy_file_unreadable
  \/ location_metadata_file_changed
  \/ retry_locality_recovery
  \/ commit_location_coordinates
  \/ commit_location_coordinates_fails
  \/ location_search_complete
  \/ on_cinnamon_interface_changed

User ==
  \/ ss_linux_date_time_panel_new
  \/ ss_linux_date_time_panel_free
  \/ on_location_coordinate_changed
  \/ on_location_result_activated
  \/ on_location_result_activated_fails
  \/ SaveOtherField
  \/ system_time_operation_applied
  \/ ss_linux_date_time_panel_reconcile_system_time_change
  \/ begin_location_search
  \/ on_show_date_changed
  \/ on_show_date_changed_fails

Other ==
  \/ ChangeDesktop
  \/ OtherStages
  \/ OtherSaves
  \/ OtherPublishes
  \/ OtherCrashes

Next == PanelHandler \/ User \/ Other

\* The main loop reaches its file events and its timers; whoever holds the
\* locality lock finishes or dies.
Fairness ==
  /\ WF_vars(policy_file_changed \/ policy_file_unreadable)
  /\ WF_vars(location_metadata_file_changed)
  /\ WF_vars(retry_locality_recovery)
  /\ WF_vars(OtherSaves \/ OtherPublishes \/ OtherCrashes)

Spec == Init /\ [][Next]_vars /\ Fairness

-----------------------------------------------------------------------------
(* What must hold.                                                         *)

\* The rows on offer answer the newest search, however late older answers
\* arrive (location_search_complete compares search_generation).
RowsAnswerTheNewestSearch == rows # None => rows.of = generation

\* With no commit pending the spin buttons show the saved coordinates, or the
\* reference point while there are none (sync_controls), unless a policy event is
\* waiting or the last one could not be read: that event cancelled the user's
\* commit and left his numbers on the screen.  Without a place they may also show
\* what they held before in a zone that has no reference point, and until the
\* controls are next filled after the reference point changed.
SpinShowsSaved ==
  Open /\ ~timer /\ "policy" \notin events \cup unread =>
    /\ place = conf
    /\ \/ spin = conf
       \/ conf = Unset /\ (spin = reference \/ reference = None \/ outdated)

\* What a pending commit will save is what the user typed last, unless an
\* event filled the controls under it (location_metadata_file_changed,
\* on_location_result_activated and the reconciliation leave the timer running).
CommitIsTyped == timer => spin = typed \/ refilled

\* Once every event is handled the panel's name of the place and its date
\* switch are those on disk and in Cinnamon.
PanelAgreesAtRest ==
  /\ Open /\ {"metadata"} \cap (events \cup unread) = {} => meta = ini
  /\ Open /\ "format" \notin events => shown = desktop

\* A failed recovery always has exactly its timer, and no other panel has one;
\* the exception is a panel opened while the migration of a legacy clock mode
\* failed too, which reports that and schedules nothing.
RecoveryIsRetried == Open /\ ~skipped => (retry <=> recovery_failed)

\* A freed panel has no timer, and no search answer reaches its widgets.
NothingOutlivesThePanel == panel = "freed" => ~timer /\ ~retry /\ rows = None

\* The coordinates are committed, and only the journal says what they name.
HalfPublished ==
  /\ journal # None /\ journal.at = conf
  /\ ini = None \/ (ini # None /\ ini.at # conf)

\* However the other process ends once it has saved the coordinates, and
\* whenever a retry is pending, the open panel comes to a pair that is complete:
\* policy_file_changed or retry_locality_recovery finishes the journal, unless
\* the panel could not read the policy or opened without scheduling its retry.
PairIsCompleted ==
  (Open /\ (retry \/ (other # None /\ other.phase = "saved")))
    ~> ((other = None /\ ~HalfPublished) \/ ~Open \/ skipped \/ "policy" \in unread)


\* The state of the panel is consistent at every step of its handlers, of late
\* answers and of the other process: well typed, rows of the newest search, a
\* timer for a recovery that failed, controls that agree with what was read, and
\* nothing left to fire once it is freed.
PanelInvariant ==
  /\ TypeOK
  /\ RowsAnswerTheNewestSearch
  /\ PanelAgreesAtRest
  /\ RecoveryIsRetried
  /\ NothingOutlivesThePanel
=============================================================================
