---------------------------- MODULE ManualDraft ------------------------------
(***************************************************************************)
(* The manual date and time editor.  It is offered while network time is   *)
(* off and the selected clock can be typed; text the user has typed is a   *)
(* draft that the window keeps until its meaning changes: another clock,   *)
(* another calendar, another time zone, network time.  The window learns   *)
(* of such changes through its own handlers, the policy-file observer and  *)
(* the signals of timedated, in any order.  While timedated cannot be read *)
(* the editor is hidden and the draft waits.                               *)
(*                                                                         *)
(* Clock mode and calendar together are one representation.  A setter of   *)
(* another field saves and publishes the representation the file holds at  *)
(* that moment (DateTimeModel).                                            *)
(*                                                                         *)
(* Definitions introduced by "Mutant:" are slips the properties must catch;*)
(* no other definition uses them.                                          *)
(***************************************************************************)
EXTENDS ManualTime, Sequences

CONSTANTS
  Untypable,           \* representations that cannot be typed
  Zone,                \* IANA time zones
  Clean,               \* the editor holds no draft
  Absent,              \* what is announced when timedated goes away
  MaxChanges           \* bound on changes of any kind

\* The representations the desktop's own format stands for.  A legacy policy
\* names none of them and follows the desktop.
Standard == {"standard-12", "standard-24"}
LegacyMode == "standard"
Mode == Standard \cup {LegacyMode, "decimal"} \cup Untypable
Properties == [zone : Zone, ntp : {"on", "off"}]
Context == [mode : Mode, zone : Zone]

ASSUME CleanAssumption == Clean \notin Context
ASSUME AbsentAssumption == Absent \notin Properties
ASSUME BoundAssumption == MaxChanges \in Nat

VARIABLES
  file,                \* representation in presentation.conf
  mem,                 \* representation the window's model publishes
  observed,            \* a policy-file event waits
  system,              \* timedated's properties
  signals,             \* property changes on their way to the window
  available,           \* the window's proxy holds timedated's properties
  cache,               \* the properties it holds, or held last
  replied,             \* the answer to a request of the window waits
  regional,            \* regional_context.timezone_id
  draft,               \* the context the draft was typed in
  visible,             \* the editor is shown
  silent,              \* history: the context was replaced without a comparison
  changes              \* history: how many changes there have been

policy == <<file, mem, observed>>
timedated == <<system, signals, replied>>
service == <<available, cache>>
vars == <<policy, timedated, service, regional, draft, visible, silent, changes>>

TypeOK ==
  /\ file \in Mode /\ mem \in Mode
  /\ observed \in BOOLEAN
  /\ system \in Properties /\ cache \in Properties
  /\ available \in BOOLEAN
  /\ signals \in Seq(Properties \cup {Absent})
  /\ replied \in BOOLEAN
  /\ regional \in Zone
  /\ draft \in Context \cup {Clean}
  /\ visible \in BOOLEAN
  /\ silent \in BOOLEAN
  /\ changes \in 0..MaxChanges

\* Only a clock the editor can read has a profile; a legacy mode has that of
\* the desktop.
profile_for_mode(mode, desktop) ==
  LET clock == IF mode = LegacyMode THEN desktop ELSE mode
  IN  CASE clock = "standard-12" -> "conventional-12"
        [] clock = "standard-24" -> "conventional-24"
        [] clock = "decimal"     -> "decimal-10"
        [] OTHER                 -> "none"

\* manual_representation_supported
Supported(mode) == profile_for_mode(mode, "standard-24") \in Profile

\* The service has become ready and the controls have been filled in.
Init ==
  /\ file \in Mode /\ mem = file
  /\ observed = FALSE
  /\ system \in Properties /\ cache = system /\ available = TRUE
  /\ signals = <<>>
  /\ replied = FALSE
  /\ regional = system.zone
  /\ draft = Clean
  /\ visible = (system.ntp = "off" /\ Supported(mem))
  /\ silent = FALSE
  /\ changes = 0

-----------------------------------------------------------------------------
\* Mutant: the editor is offered whether or not network time is on.
sync_shows(keep) ==
  /\ visible' = (available' /\ Supported(mem'))
  /\ draft' = IF (visible' \/ ~available') /\ keep THEN draft ELSE Clean

\* ss_linux_date_time_system_time_sync; keep is FALSE when the handler has
\* called ss_linux_date_time_system_time_invalidate_manual_draft.  Without the
\* service it hides the editor and returns before it looks at the draft.
sync(keep) ==
  /\ visible' = (available' /\ cache'.ntp = "off" /\ Supported(mem'))
  /\ draft' = IF (visible' \/ ~available') /\ keep THEN draft ELSE Clean

\* silent is remembered for as long as the draft is.
Note(unnoticed) == silent' = (draft' # Clean /\ (silent \/ unnoticed))

Count == changes < MaxChanges /\ changes' = changes + 1

Save(mode) == file' = mode /\ mem' = mode /\ observed' = TRUE

on_manual_entry_changed ==
  /\ visible /\ draft = Clean
  /\ draft' = [mode |-> mem, zone |-> cache.zone]
  /\ UNCHANGED <<policy, timedated, service, regional, visible, silent, changes>>

\* on_clock_changed and on_calendar_changed
on_clock_changed(mode) ==
  /\ Count
  /\ Save(mode)
  /\ UNCHANGED service
  /\ sync(FALSE) /\ Note(FALSE)
  /\ UNCHANGED <<timedated, regional>>

\* A setter of another field publishes the merged candidate.
on_seconds_changed ==
  /\ Count
  /\ Save(file)
  /\ UNCHANGED service
  /\ sync(TRUE) /\ Note(file # mem)
  /\ UNCHANGED <<timedated, regional>>

\* Another program changes the desktop's format and the window follows.
on_cinnamon_interface_changed(mode) ==
  /\ Count
  /\ mem \in Standard \cup {LegacyMode} /\ mode # mem
  /\ Save(mode)
  /\ UNCHANGED service
  /\ sync(TRUE) /\ Note(TRUE)
  /\ UNCHANGED <<timedated, regional>>

\* Mutant: a reload keeps the draft.
policy_file_changed_keeps ==
  /\ observed
  /\ observed' = FALSE
  /\ mem' = file
  /\ UNCHANGED service
  /\ sync(TRUE) /\ Note(FALSE)
  /\ UNCHANGED <<file, timedated, regional, changes>>

policy_file_changed ==
  /\ observed
  /\ observed' = FALSE
  /\ mem' = file
  /\ UNCHANGED service
  /\ sync(mem' = mem) /\ Note(FALSE)
  /\ UNCHANGED <<file, timedated, regional, changes>>

\* The reload fails: the event is consumed and the window keeps what it has.
policy_file_changed_fails ==
  /\ observed
  /\ observed' = FALSE
  /\ UNCHANGED <<file, mem, timedated, service, regional, draft, visible, silent, changes>>

\* ss_linux_date_time_panel_reconcile_system_time_change for a service that can
\* no longer be read.
system_time_unavailable ==
  /\ signals # <<>> /\ Head(signals) = Absent
  /\ signals' = Tail(signals)
  /\ available' = FALSE
  /\ UNCHANGED <<policy, cache>>
  /\ sync(TRUE) /\ Note(FALSE)
  /\ UNCHANGED <<system, replied, regional, changes>>

\* ss_linux_date_time_panel_reconcile_system_time_change.  The model is loaded
\* again only under the locality lock, when the zone has changed or the place
\* follows it.
reconcile_system_time_change ==
  /\ signals # <<>> /\ Head(signals) # Absent
  /\ signals' = Tail(signals)
  /\ available' = TRUE /\ cache' = Head(signals)
  /\ regional' = system.zone
  /\ mem' \in {mem, file}
  /\ LET timezone_changed == regional # cache'.zone
     IN  /\ sync(~timezone_changed /\ cache'.ntp = "off")
         /\ Note(mem' # mem \/ (cache'.zone # cache.zone /\ ~timezone_changed))
  /\ UNCHANGED <<file, observed, system, replied, changes>>

\* system_time_operation_complete with SS_SYSTEM_TIME_RESULT_OK
operation_applied ==
  /\ replied
  /\ replied' = FALSE
  /\ regional' = system.zone
  /\ UNCHANGED <<policy, service>>
  /\ sync(FALSE) /\ Note(FALSE)
  /\ UNCHANGED <<system, signals, changes>>

-----------------------------------------------------------------------------
(* The environment.                                                        *)

\* Nothing of timedated can be read once what is under way has arrived.
Gone == IF signals = <<>> THEN ~available ELSE signals[Len(signals)] = Absent

\* timedated applies a request of the window, which starts it again if need be.
timedated_applies ==
  /\ Count
  /\ ~replied /\ replied' = TRUE
  /\ system' \in Properties
  /\ signals' = IF system' = system /\ ~Gone THEN signals ELSE Append(signals, system')
  /\ UNCHANGED <<policy, service, regional, draft, visible, silent>>

\* timedated stops, or its name leaves the bus.
ServiceVanishes ==
  /\ Count
  /\ ~Gone
  /\ signals' = Append(signals, Absent)
  /\ UNCHANGED <<policy, system, replied, service, regional, draft, visible, silent>>

\* Another program changes a property of timedated, perhaps one the window
\* does not show, or starts timedated.
OtherProgramSets ==
  /\ Count
  /\ system' \in Properties
  /\ signals' = Append(signals, system')
  /\ UNCHANGED <<policy, replied, service, regional, draft, visible, silent>>

OtherProcessSaves ==
  /\ Count
  /\ file' \in Mode
  /\ observed' = TRUE
  /\ UNCHANGED <<mem, timedated, service, regional, draft, visible, silent>>

Next ==
  \/ on_manual_entry_changed
  \/ \E mode \in Mode \ {LegacyMode} : on_clock_changed(mode)
  \/ on_seconds_changed
  \/ \E mode \in Standard : on_cinnamon_interface_changed(mode)
  \/ policy_file_changed
  \/ policy_file_changed_fails
  \/ system_time_unavailable
  \/ reconcile_system_time_change
  \/ operation_applied
  \/ timedated_applies
  \/ ServiceVanishes
  \/ OtherProgramSets
  \/ OtherProcessSaves

Spec == Init /\ [][Next]_vars

-----------------------------------------------------------------------------
(* What must hold.                                                         *)

\* "When manual setting is visible, its clock text matches the selected
\* reversible clock representation": a draft is read back in the
\* representation it was typed in.
DraftInMode == draft # Clean => draft.mode = mem

\* "A time-zone or NTP authority change invalidates that draft": a draft is
\* sent to timedated only in the zone it was typed in.
DraftInZone == draft # Clean => draft.zone = cache.zone

\* A draft changes its meaning only through a handler that takes over a new
\* representation, or refreshes the regional context, without comparing; no
\* handler that compares ever leaves a draft behind.
OnlySilentChangesStrandADraft == silent \/ (DraftInMode /\ DraftInZone)

\* "Manual date/time is not displayed while NTP is active": once the signals
\* under way are handled, the editor is offered only while network time is off.
EditorHiddenUnderNtp == signals = <<>> => (visible => system.ntp = "off")


\* "The editable representation must remain reversible" and "a protected clock
\* write must reject that adjustment instead of setting a different time"
\* (fill_manual_time_entries, parse_manual_datetime): whatever has happened to the
\* policy, the editor is offered only in a clock whose text, filled in at any
\* second of the day, is read back as that second, and in which every time that a
\* click accepts exists on that day and is the one that was typed, under either
\* format of the desktop.
EditorReadsBack ==
  visible => \A desktop \in Standard :
               profile_for_mode(mem, desktop) \in Reversible \cap Exact

\* The state of the editor is consistent at every step: well typed, and hidden
\* once its announcements are handled, while network time is on.
DraftInvariant == TypeOK /\ EditorHiddenUnderNtp
=============================================================================
