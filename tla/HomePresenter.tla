--------------------------- MODULE HomePresenter ----------------------------
(***************************************************************************)
(* The clock and the date of the Home page.  A presenter made on first use *)
(* keeps the last policy it could read, follows the file through the       *)
(* policy-file observer and the desktop's format through GSettings, and    *)
(* caches the formatted date.  While the page is mapped a ticker puts what *)
(* the presenter formats into the labels.                                  *)
(*                                                                         *)
(* Another process changes the file, the directories above it, whether it  *)
(* can be read, and the desktop's format, between any two steps.           *)
(***************************************************************************)
EXTENDS PolicyFileObserver

CONSTANTS
  Calendar,            \* calendar identifiers
  DefaultCalendar,     \* the calendar of the default policy
  None,                \* nothing there
  MaxChanges,          \* bound on what the environment does
  MaxDay               \* bound on the days that pass

ASSUME ChangeAssumption == MaxChanges \in Nat /\ MaxDay \in Nat
ASSUME DefaultAssumption == DefaultCalendar \in Calendar
Native == {"standard-12", "standard-24"}
AnyPolicy == [clock : Native \cup {"standard"}, calendar : Calendar]

ASSUME ContentAssumption ==
  /\ Policy \subseteq AnyPolicy
  /\ None \notin Policy \cup {Absent}

Delay == {2, 4, 8, 16, 32, 60}

VARIABLES
  readable,            \* the file can be opened
  desktop,             \* what clock-use-24h stands for
  notified,            \* a "changed" signal of GSettings waits
  day,                 \* the current day
  resources,           \* clock and calendar implementations are installed
  presenter,           \* "none" before its first use, "live", "freed"
  policy,              \* presenter->policy, None until policy_valid
  source,              \* history: the contents that policy was made from
  use_24h,             \* the presenter's copy of desktop
  retry,               \* delay of the pending reload timer, 0 if none
  retry_seconds,       \* policy_reload_retry_seconds
  unread,              \* history: the last load failed
  cache,               \* the date last formatted
  mapped,              \* the Home page is on the screen
  ticker,              \* its timer runs
  shown,               \* the labels
  missed,              \* history: a change may have gone by unwatched
  changes              \* history: what the environment has done

desk == <<desktop, notified, day, resources>>
reloading == <<policy, source, retry, retry_seconds, unread>>
page == <<mapped, ticker, shown>>
vars == <<filesystem, observer, readable, desk, presenter, reloading, use_24h, cache,
          page, missed, changes>>

Date == [day : 0..MaxDay, calendar : Calendar]

TypeOK ==
  /\ ObserverTypeOK
  /\ readable \in BOOLEAN /\ notified \in BOOLEAN /\ resources \in BOOLEAN
  /\ desktop \in Native /\ use_24h \in Native
  /\ day \in 0..MaxDay
  /\ presenter \in {"none", "live", "freed"}
  /\ policy \in AnyPolicy \cup {None} /\ source \in Policy \cup {Absent, None}
  /\ retry \in Delay \cup {0} /\ retry_seconds \in Delay
  /\ unread \in BOOLEAN /\ missed \in BOOLEAN
  /\ cache \in Date \cup {None}
  /\ mapped \in BOOLEAN /\ ticker \in BOOLEAN
  /\ shown = None \/ shown \in [clock : Native \cup {"unavailable"},
                                date : Date \cup [unavailable : Calendar]]
  /\ changes \in 0..MaxChanges

\* The application starts; the Home page is not yet mapped.
Init ==
  /\ ObserverInit
  /\ readable \in BOOLEAN
  /\ desktop = "standard-24" /\ use_24h = desktop /\ notified = FALSE
  /\ day = 0 /\ resources = TRUE
  /\ presenter = "none"
  /\ policy = None /\ source = None
  /\ retry = 0 /\ retry_seconds = 2 /\ unread = FALSE
  /\ cache = None
  /\ mapped = FALSE /\ ticker = FALSE /\ shown = None
  /\ missed = FALSE
  /\ changes = 0

-----------------------------------------------------------------------------
(* Loading the policy.                                                     *)

\* platform_load: with no file, the default policy with the desktop's clock.
Loaded == IF Exists THEN file ELSE [clock |-> desktop, calendar |-> DefaultCalendar]

\* A missing file is no error; one that cannot be opened is.
LoadFails == Exists /\ ~readable

\* presenter_reload_policy when it succeeds; retry_seconds starts over.
ReloadSucceeds ==
  /\ ~LoadFails
  /\ policy' = Loaded /\ source' = file
  /\ retry' = 0 /\ retry_seconds' = 2
  /\ unread' = FALSE

\* schedule_policy_reload_retry, with no timer pending
ScheduleRetry ==
  /\ retry' = retry_seconds
  /\ retry_seconds' = IF retry_seconds * 2 < 60 THEN retry_seconds * 2 ELSE 60

\* The last good policy stays; a timer that is pending is left alone.
ReloadFails(pending) ==
  /\ LoadFails
  /\ unread' = TRUE
  /\ UNCHANGED <<policy, source>>
  /\ IF pending THEN UNCHANGED <<retry, retry_seconds>> ELSE ScheduleRetry

on_policy_file_changed == ReloadSucceeds \/ ReloadFails(retry # 0)

\* Mutant: the timer that fired still counts as pending.
retry_policy_reload_pending ==
  /\ busy = Idle /\ retry # 0
  /\ \/ ReloadSucceeds
     \/ LoadFails /\ retry' = 0 /\ UNCHANGED <<policy, source, retry_seconds, unread>>
  /\ UNCHANGED <<filesystem, observer, readable, desk, presenter, use_24h, cache, page,
                 missed, changes>>

retry_policy_reload ==
  /\ busy = Idle /\ retry # 0
  /\ ReloadSucceeds \/ ReloadFails(FALSE)
  /\ UNCHANGED <<filesystem, observer, readable, desk, presenter, use_24h, cache, page,
                 missed, changes>>

on_presenter_settings_changed ==
  /\ presenter = "live" /\ busy = Idle /\ notified
  /\ notified' = FALSE
  /\ use_24h' = desktop
  /\ UNCHANGED <<filesystem, observer, readable, desktop, day, resources, presenter,
                 reloading, cache, page, missed, changes>>

-----------------------------------------------------------------------------
(* Formatting.                                                             *)

format_clock ==
  IF ~resources THEN "unavailable"
  ELSE IF policy.clock = "standard" THEN use_24h ELSE policy.clock

\* Mutant: the cached date is looked up by its day alone.
Cached_by_day == cache # None /\ cache.day = day

Cached == cache # None /\ cache.day = day /\ cache.calendar = policy.calendar

\* presenter_format_date; only a date that could be formatted is cached.
presenter_format_date ==
  IF Cached THEN cache
  ELSE IF resources THEN [day |-> day, calendar |-> policy.calendar]
  ELSE [unavailable |-> policy.calendar]

\* refresh_home_temporal; labels keep their text while there is no policy.
Refresh ==
  \/ /\ policy # None
     /\ shown' = [clock |-> format_clock, date |-> presenter_format_date]
     /\ cache' = IF resources THEN presenter_format_date ELSE cache
  \/ policy = None /\ UNCHANGED <<shown, cache>>

-----------------------------------------------------------------------------
(* The page and the life of the presenter.                                 *)

\* The ticker's timer fires.
refresh_home_temporal ==
  /\ busy = Idle /\ ticker
  /\ Refresh
  /\ UNCHANGED <<filesystem, observer, readable, desk, presenter, reloading, use_24h,
                 mapped, ticker, missed, changes>>

\* home_temporal_mapped, start_home_temporal_ticker
home_temporal_mapped ==
  /\ busy = Idle /\ ~mapped /\ presenter = "live"
  /\ mapped' = TRUE /\ ticker' = TRUE
  /\ Refresh
  /\ UNCHANGED <<filesystem, observer, readable, desk, presenter, reloading, use_24h,
                 missed, changes>>

\* The first time, ensure_presenter makes the presenter: settings and policy
\* are read, then the observer is made.
ss_home_temporal_presenter_new ==
  /\ busy = Idle /\ ~mapped /\ presenter = "none"
  /\ mapped' = TRUE
  /\ presenter' = "live"
  /\ use_24h' = desktop
  /\ ReloadSucceeds \/ ReloadFails(FALSE)
  /\ busy' = [Idle EXCEPT !.call = "load"]
  /\ UNCHANGED <<filesystem, watch, queue, target_exists, rebind, faults, raced, readable,
                 desk, cache, ticker, shown, missed, changes>>

observe ==
  /\ busy.call = "load"
  /\ ss_policy_file_observer_new
  /\ UNCHANGED <<filesystem, watch, queue, rebind, faults, raced, readable, desk, presenter,
                 reloading, use_24h, cache, page, missed, changes>>

\* History: the file differs from what was read, and nothing will say so.
Overlooked == ~unread /\ source # file

\* History: what the observer remembers is not what the presenter has read, so
\* that comparing the file with it says nothing.
Misremembered == Overlooked /\ target_exists # (source # Absent)

\* bind_monitor returns to ss_policy_file_observer_new, whose caller goes on
\* to fill in the labels and to start the ticker.
observer_made ==
  /\ busy.call = "new"
  /\ watch_starts \/ watch_fails
  /\ busy' = Idle
  /\ ticker' = TRUE
  /\ Refresh
  /\ missed' = Overlooked
  /\ UNCHANGED <<filesystem, target_exists, readable, desk, presenter, reloading, use_24h,
                 mapped, changes>>

\* bind_monitor returns to monitor_changed, which looks at the file only now.
monitor_changed_returns ==
  /\ busy.call = "monitor_changed"
  /\ watch_kept \/ watch_fails \/ watch_starts
  /\ busy' = Idle
  /\ target_exists' = Exists
  /\ LET rebound == ~Bound /\ faults' = faults
     IN  \/ Reports(rebound) /\ on_policy_file_changed /\ missed' = FALSE
         \/ /\ ~Reports(rebound) /\ UNCHANGED reloading
            /\ missed' = (missed \/ Misremembered)
  /\ UNCHANGED <<filesystem, readable, desk, presenter, use_24h, cache, page, changes>>

\* bind_monitor returns to retry_bind; nobody looks at the file.
retry_bind_returns ==
  /\ busy.call = "retry_bind"
  /\ watch_kept \/ watch_fails \/ watch_starts
  /\ busy' = Idle
  /\ missed' = (missed \/ Overlooked)
  /\ UNCHANGED <<filesystem, target_exists, readable, desk, presenter, reloading, use_24h,
                 cache, page, changes>>

home_temporal_unmapped ==
  /\ busy = Idle /\ mapped
  /\ mapped' = FALSE /\ ticker' = FALSE
  /\ UNCHANGED <<filesystem, observer, readable, desk, presenter, reloading, use_24h, cache,
                 shown, missed, changes>>

\* The window is destroyed: home_temporal_ticker_free and
\* ss_home_temporal_provider_free
ss_home_temporal_presenter_free ==
  /\ busy = Idle /\ presenter = "live"
  /\ presenter' = "freed"
  /\ ss_policy_file_observer_free
  /\ retry' = 0
  /\ mapped' = FALSE /\ ticker' = FALSE
  /\ UNCHANGED <<filesystem, readable, desk, policy, source, retry_seconds, unread, use_24h,
                 cache, shown, missed, changes>>

-----------------------------------------------------------------------------
(* The environment.                                                        *)

Count == changes < MaxChanges /\ changes' = changes + 1

FilesChange ==
  /\ Count
  /\ \/ MakeDirectory
     \/ RemoveDirectory
     \/ \E content \in Policy \cup {Absent} : ChangeFile(content)
     \/ Unrelated
  /\ UNCHANGED <<target_exists, rebind, busy, faults, raced, readable, desk, presenter,
                 reloading, use_24h, cache, page, missed>>

\* The permissions of the file change, which is an event of the file.
PermissionsChange ==
  /\ Count
  /\ Exists
  /\ readable' = ~readable
  /\ Notify("target", {Depth})
  /\ UNCHANGED <<filesystem, watch, target_exists, rebind, busy, faults, raced, desk,
                 presenter, reloading, use_24h, cache, page, missed>>

DesktopChanges ==
  /\ Count
  /\ desktop' \in Native \ {desktop}
  /\ notified' = (presenter = "live")
  /\ UNCHANGED <<filesystem, observer, readable, day, resources, presenter, reloading,
                 use_24h, cache, page, missed>>

ResourcesChange ==
  /\ Count
  /\ resources' = ~resources
  /\ UNCHANGED <<filesystem, observer, readable, desktop, notified, day, presenter,
                 reloading, use_24h, cache, page, missed>>

DayPasses ==
  /\ day < MaxDay
  /\ day' = day + 1
  /\ UNCHANGED <<filesystem, observer, readable, desktop, notified, resources, presenter,
                 reloading, use_24h, cache, page, missed, changes>>

GioResumes ==
  /\ monitor_resumes
  /\ missed' = (missed \/ Overlooked)
  /\ UNCHANGED <<target_exists, rebind, busy, faults, raced, readable, desk, presenter,
                 reloading, use_24h, cache, page, changes>>

Presented ==
  \/ /\ monitor_changed \/ retry_bind
     /\ UNCHANGED <<filesystem, readable, desk, presenter, reloading, use_24h, cache, page,
                    missed, changes>>
  \/ observe
  \/ observer_made
  \/ monitor_changed_returns
  \/ retry_bind_returns
  \/ retry_policy_reload
  \/ on_presenter_settings_changed

Next ==
  \/ Presented
  \/ refresh_home_temporal
  \/ ss_home_temporal_presenter_new
  \/ home_temporal_mapped
  \/ home_temporal_unmapped
  \/ ss_home_temporal_presenter_free
  \/ FilesChange
  \/ PermissionsChange
  \/ DesktopChanges
  \/ ResourcesChange
  \/ DayPasses
  \/ GioResumes

(***************************************************************************)
(* The main loop dispatches every event and timer, and GIO looks for a     *)
(* missing directory again and again.  Showing the page, closing it and    *)
(* the other processes are not obliged to do anything.                     *)
(***************************************************************************)
Spec ==
  /\ Init /\ [][Next]_vars
  /\ WF_vars(Presented)
  /\ WF_vars(refresh_home_temporal)
  /\ WF_vars(GioResumes)

-----------------------------------------------------------------------------
(* What must hold.                                                         *)

\* A failed load always leaves exactly one timer behind that will load again,
\* through every order of events, timers and failures; a successful one leaves
\* none.
RetryWhileUnread == presenter = "live" => (unread <=> retry # 0)

\* "Atomic-replacement-safe observation": with nothing pending the watch is
\* never left on an ancestor of the file's nearest directory, wherever
\* directories came and went, unless that directory appeared between the
\* choice of the other one and its watch.
WatchesNearest ==
  presenter = "live" /\ ObserverAtRest => raced \/ watch.directory >= top

\* "Policy-file changes still invalidate cached state": with nothing pending
\* the presenter holds the policy of the file.  A change is missed only before
\* the observer is first attached, while no watch could be started or the
\* watched directory was gone, until the watch is where it belongs, and when the
\* event of a removal is dropped with its watch (bind_monitor) while target_exists
\* is not the existence of the file that was read: the file came before the
\* observer asked (ss_policy_file_observer_new), or was read by the retry timer.
HomeAgreesAtRest ==
  presenter = "live" /\ ObserverAtRest /\ retry = 0 /\ Watching /\ ~missed => source = file

\* Timers and monitors hold a pointer to the presenter or to the page: none is
\* left when the presenter is freed, and the ticker runs only for a page that
\* is mapped.
NothingOutlivesItsOwner ==
  /\ presenter = "freed" => retry = 0 /\ ~rebind /\ ~watch.live /\ ~ticker
  /\ ticker => mapped

\* The state of the presenter is consistent at every step: it is well typed, its
\* timers are those its last load calls for, and they go with it.
PresenterInvariant == TypeOK /\ RetryWhileUnread /\ NothingOutlivesItsOwner

\* While Home stays on the screen its labels catch up with the file, the desktop
\* and midnight: the clock is the policy's, and the date is today's in the
\* policy's calendar or is said to be unavailable; the cache never brings back
\* another one (presenter_format_date).  With no file the clock stays the one the
\* desktop had when the policy was loaded: of the presenter, only use_24h follows.
HomeSettles ==
  <>[](mapped /\ readable /\ Watching /\ ~missed
         => /\ source = file /\ use_24h = desktop
            /\ shown # None /\ shown.clock = format_clock
            /\ \/ shown.date = [day |-> day, calendar |-> policy.calendar]
               \/ ~resources /\ shown.date = [unavailable |-> policy.calendar])
=============================================================================
