---------------------------- MODULE PanelPreview ----------------------------
(***************************************************************************)
(* The live preview at the top of the Date & Time panel: a clock and a     *)
(* date label, one one-shot timer that is armed for the clock's next       *)
(* visible change while the panel is mapped, and one idle callback for the *)
(* first refresh.  The clock's resource handle is kept per clock mode and  *)
(* the formatted date per day and calendar.                                *)
(*                                                                         *)
(* The module has the operations only; ShellWindow maps, unmaps and frees  *)
(* the panel.  Which instant the timer is armed for is not modelled, and a *)
(* clock that lacks its location is a clock whose resource does not answer.*)
(*                                                                         *)
(* Definitions introduced by "Mutant:" are slips the properties must catch;*)
(* no other definition uses them.                                          *)
(***************************************************************************)
EXTENDS Naturals

CONSTANTS
  Mode,                \* clock modes
  Calendar,            \* calendars
  None,                \* nothing there
  MaxDay               \* bound: days that pass

ASSUME DayAssumption == MaxDay \in Nat
ASSUME NothingAssumption == None \notin Mode

Policy == [mode : Mode, calendar : Calendar]

VARIABLES
  policy,              \* the model's clock mode and calendar
  day,                 \* the civil day
  resources,           \* the clock and calendar resources are installed
  timer, idle,         \* timer_id # 0 and idle_id # 0
  handle,              \* clock_presentation and the id it was made for
  clock_label,         \* what formatted the clock label, and whether it could
  date_label,          \* the calendar and day of the date label, or unavailable
  cache                \* date_calendar and the date, if date_cache_valid

world == <<policy, day, resources>>
labels == <<handle, clock_label, date_label, cache>>
preview == <<timer, idle, labels>>

Handle == [mode : Mode, ok : BOOLEAN]
DateText == [calendar : Calendar, day : 0..MaxDay, ok : BOOLEAN]

PreviewTypeOK ==
  /\ policy \in Policy
  /\ day \in 0..MaxDay
  /\ resources \in BOOLEAN
  /\ timer \in BOOLEAN /\ idle \in BOOLEAN
  /\ handle \in Handle \cup {None}
  /\ clock_label \in Handle \cup {None}
  /\ date_label \in DateText \cup {None}
  /\ cache \in DateText \cup {None}

PreviewInit ==
  /\ policy \in Policy
  /\ day = 0
  /\ resources \in BOOLEAN
  /\ timer = FALSE /\ idle = FALSE
  /\ handle = None /\ clock_label = None /\ date_label = None /\ cache = None

-----------------------------------------------------------------------------

\* A handle that could not be made stays unavailable until the mode changes.
ensure_clock_presentation ==
  handle' = IF handle # None /\ handle.mode = policy'.mode
              THEN handle
              ELSE [mode |-> policy'.mode, ok |-> resources]

Cached == cache # None /\ cache.calendar = policy'.calendar /\ cache.day = day

\* Mutant: a failed formatting is cached too.
FormatDate_caches ==
  LET text == [calendar |-> policy'.calendar, day |-> day, ok |-> resources]
  IN  IF Cached THEN UNCHANGED <<date_label, cache>>
                ELSE date_label' = text /\ cache' = text

\* Only a date that could be formatted is cached.
FormatDate ==
  LET text == [calendar |-> policy'.calendar, day |-> day, ok |-> resources]
  IN  IF Cached THEN UNCHANGED <<date_label, cache>>
                ELSE date_label' = text /\ cache' = IF resources THEN text ELSE cache

\* The labels before and after; the policy is the one of the next state.
ss_linux_date_time_preview_refresh ==
  /\ ensure_clock_presentation
  /\ clock_label' = handle'
  /\ FormatDate

\* Arms the timer of a mapped panel; asking for the next boundary makes the handle.
Restart(mapped) ==
  IF mapped THEN timer' = TRUE /\ ensure_clock_presentation
            ELSE UNCHANGED <<timer, handle>>

\* refresh_preview_once, from the idle source
IdleRefresh ==
  /\ idle
  /\ idle' = FALSE
  /\ UNCHANGED <<world, timer>>
  /\ ss_linux_date_time_preview_refresh

\* The one-shot timer fires, refreshes and is armed again.
preview_timer_once(mapped) ==
  /\ timer
  /\ timer' = mapped
  /\ UNCHANGED <<world, idle>>
  /\ ss_linux_date_time_preview_refresh

\* policy_saved and policy_file_changed: restart and refresh.
PolicyChanges(mapped) ==
  /\ policy' \in Policy \ {policy}
  /\ timer' = (timer \/ mapped)
  /\ ss_linux_date_time_preview_refresh
  /\ UNCHANGED <<day, resources, idle>>

\* on_cinnamon_interface_changed reconciles the clock mode: only a restart, so
\* the labels change when the timer next fires.
ModeReconciled(mapped) ==
  /\ \E m \in Mode \ {policy.mode} : policy' = [policy EXCEPT !.mode = m]
  /\ Restart(mapped)
  /\ UNCHANGED <<day, resources, idle, clock_label, date_label, cache>>

ss_linux_date_time_preview_dispose ==
  /\ timer' = FALSE /\ idle' = FALSE
  /\ handle' = None /\ cache' = None
  /\ UNCHANGED <<clock_label, date_label>>
=============================================================================
