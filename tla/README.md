# A TLA+ model of System Settings (Date & Time)

System Settings is a GTK shell for Linux Mint/Cinnamon whose first real module
is Date & Time. The hard part of the program is not its widgets. It is one small
policy that several processes edit at the same time, and that has to stay in step
with three things the program does not own: the Cinnamon clock settings, a second
file that describes the chosen place, and systemd-timedated. Around it stand the
event handling of the panel, of the Home page and of the shell window, and two
programs that build and install a release. This directory models these and checks
them with TLC; TLAPS proves every safety property that TLC confirms, for all values of
the constants.

All source paths below are relative to the repository (`src/modules/date-time/...`).

## 1. Inventory

| Component | State | Operations | Talks to |
|---|---|---|---|
| Temporal policy model (`date-time-model.c`) | in-memory policy, `persisted`, `saving` | setters, reversible location update with finish/rollback, reload, normalise, clear | store |
| Linux policy store, advisory lock (`temporal-policy-store.c`, `linux-advisory-lock.h`) | `presentation.conf`, `presentation.lock` | lock with bounded wait, load with recovery, save, remove, mirror | Cinnamon settings |
| Native clock policy, Cinnamon settings (`native-clock-policy.c`, `cinnamon-interface.c`) | `clock-use-24h`, `clock-show-seconds` | seed, mirror, change signal | panel, store |
| Panel: policy and native events (`linux-date-time-panel.c`) | reloaded policy, regional context, `follows_timezone_reference` | reaction to native, file and timedated signals; recovery of a journal | all of the above |
| Locality metadata journal (`location-metadata.c`) | `location.ini`, `location.pending`, `locality.lock` | stage, publish, discard, recover | policy model |
| Place selection (`linux-date-time-location.c`) | pending edit, search generation | choose a place, type coordinates, clear | journal, model, search |
| Command-line tool (`time-settings-cli.c`) | none between invocations | the two-lock transaction with its rollback | model, journal |
| System-time service and controller (`system-time-service.c`, `linux-date-time-system-time.c`) | proxy, references, per-operation cancellable and generation, manual draft | construct, request, complete, signal, dispose | timedated over D-Bus |
| Policy file observer (`policy-file-observer.c`) | watch on the nearest existing directory, `target_exists`, retry | attach, dispatch, rebind, retry, free | panel, Home presenter |
| Home presentation (`home-temporal-presentation.c`, `home-temporal-provider.c`) | last good policy, reload timer with back-off, date cache | load, retry, format, free | observer, Home page |
| Panel controls (`linux-date-time-panel.c`, `linux-date-time-location.c`) | spin buttons and their commit timer, result rows, recovery retry | react to file events, timers, search answers; open, free | journal, model, search |
| Location search (`location-search.c`) | worker, cancellable | search, deliver | place selection |
| Manual time parsing (`manual-time.c`) | none | text to instant and back | system-time controller |
| Preview (`linux-date-time-preview.c`) | timer, idle callback, clock handle, date cache | refresh, restart, dispose | panel |
| Shell window, home page, module host (`shell-window.c`, `home-page.c`, `linux-builtin-module-host.c`) | visible and leaving page, selected row, module instance, page timers | navigate, open, activate, close | panel, Home presenter |
| Source-asset builder (`packaging/source-asset-builder.c`) | temporary workspace, exported tree, `.run` file | check, export, pack, verify, clean up | Git repository |
| Installer (`packaging/native-installer.c`) | build tree, copied payload, package | unpack, build twice, test, package, install | the asset, the system |
| Regional context (`regional-context.c`) | zone, territory, reference coordinates | read from `/etc/localtime`, `zone.tab`, locale | panel |
| Windows policy store (`platform/windows/...`) | policy file | lock, load, save, clear | model |
| Panel widgets, theme | widgets, style sheets | construct | panel, shell |

What is hard here:

* **Interleaving of processes.** Any number of windows and tool invocations
  share two files and two locks; each holds a copy of the policy in memory.
* **Failure between two steps.** Every save is followed by more steps (mirror,
  publish in memory, write the second file). Each may fail, fail after it has
  taken effect, or never run because the process dies.
* **Feedback.** Saving mirrors into Cinnamon, Cinnamon signals every window, and
  a window that hears a signal may save.
* **Asynchrony.** Replies, timeouts and property signals of timedated arrive in
  any order relative to each other, to the user's next action and to the closing
  of the panel. The same holds for search answers, file events, commit and retry
  timers, and for pages that GTK maps and unmaps during a cross-fade.
* **Somebody else's files.** The observer chooses a directory and then watches it;
  the builder runs a dozen commands on a repository; both can move in between.

What makes each component correct:

* model and store: no lost update, no leaked lock, nothing shown that is not
  durable, every operation returns;
* native clock: at rest, windows and desktop show the policy on disk; the
  feedback comes to rest; an extended clock mode is not overwritten knowingly;
* journal: the coordinates in the policy and the place that describes them are
  never separated for good; a rollback restores exactly what was there;
* reconciliation: a place somebody chose is not replaced by a reference point;
* system time: references are exact, only the newest answer counts, an answer
  after the panel's end has no effect, the controls show what timedated reports;
* manual draft: typed text is read back with the meaning it was typed with, and
  what is accepted is exactly what was typed;
* observer and Home: the watch ends up where the file will appear, a policy that
  could not be read is read again, and the labels catch up;
* panel controls: what is committed was typed, only the newest search counts, a
  pair of which half is published is completed;
* preview and shell: timers belong to pages that are on the screen, and nothing
  outlives its owner;
* release: an asset is one commit, only tested programs are installed, nothing
  temporary stays.

`PROJECT.json` lists the places where each of these can go wrong ("hazards").

## 2. Modules

```
TemporalPolicy        pure: policies, merging an edit, seeding, mirroring
  DateTimeModel       processes, store, lock          --refines--> PolicyRegister
    NativeClockSync   DateTimeModel composed with Cinnamon's signals and file events
      DateTimeModelProofs
LocalityJournal       policy + location.ini + location.pending + locality lock
  LocalityReconcile   LocalityJournal composed with changes of the time zone
    LocalityJournalProofs
SystemTime            panel, service object, D-Bus calls, timedated
  SystemTimeProofs
ManualTime            pure: the texts of the manual editor and what they stand for
  ManualDraft         the life of the typed date and time
    ManualDraftProofs
PolicyFileObserver    directories, the file and the watch on them
  HomePresenter       the observer's client: policy, retry, date cache, Home's labels
    HomePresenterProofs
PanelControls         the open panel: events, timers, search, another process
  PanelControlsProofs
PanelPreview          the preview's timer, handle and cache
  ShellWindow         navigation, modules and timers around the preview
    ShellWindowProofs
SourceAssetBuilder    the release builder and the payload's arithmetic
  NativeInstaller     the installer, run on what the builder released
    NativeInstallerProofs
MC*                   instances for TLC
```

Definitions that model a C function carry its name. A comment beginning with
"Mutant:" introduces a deliberately wrong variant of the definition that
follows; nothing uses it, it documents the slip the properties must catch.

### TemporalPolicy, DateTimeModel, PolicyRegister

`TemporalPolicy` is the data: a policy is a record of clock mode, seconds,
calendar and location; an edit says for each field whether it keeps it (`Same`)
or what it becomes; `Assign` merges an edit into a policy; `Seed` and
`MirroredClock` translate from and to the native keys. The values of a field are
constants, since the operations never look at them except to tell conventional
clock modes from extended ones.

`DateTimeModel` has one model per process over one store. A setter is the chain
`acquire -> load -> save -> mirror -> commit -> publish`, one action per call that
touches shared state, because other processes run in between:

| Code | Actions |
|---|---|
| `ss_date_time_model_init`, `_reload`, `_clear` | `Start`, `reload`, `Stop` |
| `begin_update` | `begin_update`, `begin_update_fails` (the lock's bounded wait) |
| `platform_load` under the lock | `load_candidate`, `load_candidate_fails` |
| `save_candidate` | `save`, `save_fails` (the file may already be replaced), the mirror step |
| setters, CLI | `set_clock_mode`, `set_show_seconds`, ..., `cli_invocation` |
| reversible location update | the same with `reversible`, `open_location_update`, then `finish_location_update` or `rollback_location_update` |
| a process dies | `Stop`: the kernel drops its lock |

`PolicyRegister` is what the store promises: a process asks for an edit, and one
register makes exactly that edit, at most once, in the value it holds at that
moment, or the edit is given up; at most one edit is tentative and is later kept or
taken back exactly. The refinement maps the register's value to what a reader of
the file gets, the edits asked for to the operations that have not tried their save
yet, and the tentative change to an open reversible update.

### NativeClockSync

Adds to `DateTimeModel` what windows hear: pending native signals per window and
key, pending file events, and `on_cinnamon_interface_changed` and
`policy_file_changed` as the handlers. Signals can be raised while a window is
itself mirroring; its own re-entrancy guard then drops them (`deaf`). A process
outside `Window` is the command-line tool: it changes the policy and hears nothing.

A window opens in the steps of `ss_linux_date_time_panel_new`, other processes in
between: it loads the policy, attaches its observer (which does not read the file
again), connects to the native keys, and migrates a legacy clock mode
(`"standard"`, which follows the desktop like the two conventional ones). A reload
may fail (`policy_file_changed_fails`): its event is consumed, the policy in memory
stays, and nothing tries again. `unread` are the windows that do not know the file
for one of these two reasons, a change between load and observer or a failed reload,
until a later event or a save of their own reads it. `excused` remembers that a save
or a mirroring failed, that the desktop changed while no window listened, or that
a window turned a native key down by a policy that was not the one on disk; then
nobody promises agreement. What a reconciliation of a changed zone reloads on its
way is `LocalityReconcile`'s; it could only bring a window up to date earlier.

### LocalityJournal, LocalityReconcile

A change of place takes the locality lock, reads the old place, stages the new
record in `location.pending`, saves the coordinates with a reversible update,
publishes the record into `location.ini` and finishes or rolls back. Each file
operation is an action with its failures: `"io"` (no effect), `"late"` (reported
as failed after it took effect), `"crash"` (the process dies). `Fault` selects
which are possible. Recovery finishes a journal that describes the configured
place and discards another one, as `ss_location_metadata_recover` does. Both
locks are modelled, because the window gives the policy lock back before it
discards its stage and the tool does not, and because they are taken in different
orders relative to the stage. Of the policy only the location is kept;
`OtherSetter` stands for edits of other fields, which matter here only when they
create the file. `slips` remembers the two kinds of event that can cost a pair.

`LocalityReconcile` adds each window's cached time zone and its decision whether
the policy merely follows the zone's reference point, and the handler that
rewrites metadata or publishes the new reference under the locality lock.

### SystemTime

timedated with its unresolved requests, the proxy with signals in flight and its
cache, the service object's and the lifetime anchor's reference counts, the
controller's per-operation cancellable and generation, and the panel that can be
closed at any moment. A call ends with timedated's answer or is given up (D-Bus
timeout, cancellation) while the request stays with timedated. The insensitive
state of the controls is not relied on.

### ManualTime, ManualDraft

What the editor shows and the draft it keeps, together with the context (clock
representation and zone) it was typed in, against every handler that changes the
policy in memory or the properties the proxy caches. While timedated cannot be read
(`available`, `system_time_unavailable`) `sync` hides the editor and returns before it
looks at the draft, which is compared when the service is back. A legacy clock mode
is typed in the desktop's format of that moment. `silent` remembers that one of the
handlers that do not compare has replaced the context.

`ManualTime` is the conversion itself: a text is its fields as `parse_field` reads
them, a time is a number of ticks of 8 ms (the greatest common measure of a second
and of a decimal second, so nothing is rounded), and a day may lack the wall times
its daylight-saving change skips. `Exact` are the clocks in which every accepted text
is what the face of that clock will show; `Reversible` those in which what the
editor fills in at any of the 86400 seconds is read back as that second.

### PolicyFileObserver, HomePresenter

The file system is a chain of directories that appear and vanish, and a file in the
last one. The observer chooses the nearest existing directory and starts its watch
in two steps, since others run in between; a watch may fail to start (`watch_fails`,
retried after 30 s), and one whose directory is removed is dead until GIO finds it
again. `busy` is the observer's call under way; `raced` and `missed` remember the
ways a change can go by: the directory chosen was no longer the nearest, the file
differed from what was read at a moment when nobody looks at it (`Overlooked`), or
the event of its removal was dropped with the old watch while `target_exists` said
otherwise than what was read (`Misremembered`).

`HomePresenter` supplies the callback: reload, or keep the last good policy and
schedule a reload after 2, 4, ... 60 seconds. The formatted date is cached by day
and calendar; the page's ticker runs while it is mapped.

### PanelControls

One action per handler of the panel, because it runs on one main loop; the other
process of this module takes its steps in between and may die half-way. The panel's
own transactions are single actions here (`LocalityJournal` has their steps), with
the step they fail at as a choice, a rollback that fails after a failed publication
among them. The spin buttons start at `Origin`, what the widget is created with.
`reference` is the reference point of the current zone as the panel last detected it,
`None` for a zone without coordinates; `sync_controls` then leaves the buttons alone
when no place is configured. It changes when an operation of the panel was applied
and when `reconcile_system_time_change` runs, which may publish the reference point
and fills the buttons under a running timer; `outdated` says that they have not been
filled since. Reading `location.ini` while the panel opens may fail. `refilled` remembers that code filled the spin
buttons while a commit of typed numbers was pending, `skipped` that the panel
reported a failed migration instead of scheduling its retry, `unread` which file
could not be read.

### PanelPreview, ShellWindow

`PanelPreview` has the preview's operations: a clock handle per mode, a date cached
per day and calendar, one timer and one idle callback. `ShellWindow` maps, unmaps and
frees the panel. A handler is one action with every signal GTK emits inside it
(`Signals`): what has become mapped or unmapped is told at once. The cross-fade keeps
the page that is left mapped until `TransitionEnds`, and a page opened again while it
fades out is unmapped and mapped. A module that cannot be created leaves a notice
and is tried again at the next visit. A row can be deselected (`selected` is `None`),
which opens nothing.

### SourceAssetBuilder, NativeInstaller

The builder is a chain of steps, each of which may fail, in a repository that
`RepositoryMoves` changes at any time; a tree is known by the commits it was exported
from. `payload_bounds` and `copy_payload` keep the width of `uint64_t` and the cast to
`off_t`: a word has `2 * Half` values, of which the upper half is negative after the
cast; `Half` is 2^63 in the program. The installer starts from the asset the builder released,
possibly damaged on its way (any claimed length, no footer, broken archive). Both
builds share one directory, so a failed one leaves the other's programs in place.

## 3. Runs

| Run | Instance | Shows |
|---|---|---|
| `policy_model` | 2 processes, 2 clock modes | no stale candidate, no leaked lock, nothing unsaved published, refinement of `PolicyRegister`, every operation returns |
| `native` | window that opens step by step + tool, an extended and the legacy mode, failed reloads, 3 edits | at rest a window that could read the file shows it, the desktop agrees with it but for the named exceptions, an extended mode is replaced only while the window does not know of it, mirroring and tracking come to rest |
| `journal` | 2 windows + tool, 2 places, I/O errors, late failures and deaths | exact rollback; only re-staging and misreported writes can lose a pair; metadata never starts to describe a foreign place |
| `reconcile` | 2 windows, 2 zones, errors and deaths | chosen places survive reconciliation |
| `reference_follows` | 1 window, no failures | **violated**: the reference does not follow the zone |
| `system_time` | 2 requests, 2 outside changes | exact references, newest answer, inert late answers, truthful controls, no control stays locked |
| `manual_draft` | 5 changes, every representation, timedated coming and going | only the handlers that do not compare strand a draft; the editor reads back what it shows and accepts only what was typed |
| `home_presenter` | 2 directories, 2 contents, 4 changes, 1 failed watch, 2 days | the watch ends up on the nearest directory, Home settles on the file, the date and the desktop, a policy that could not be read is read again |
| `panel_controls` | 2 places, a zone with and one without a reference point, 3 moves, 1 fault | the spin buttons show the saved place but for the named exceptions, what is committed was typed, answers to old searches change nothing, failed recoveries are retried, half a pair is completed |
| `shell` | 2 modes, 2 calendars, 6 moves, 1 fault, 2 days | timers run exactly on mapped pages, selection, module and status cards fit the page, nothing outlives the window, the preview catches up |
| `preview_date` | the same | **violated**: the date label may name a calendar that is no longer selected |
| `release` | 2 commits, 2 commits of Common, 2 moves, words of 32 values | one commit per asset, the payload stays inside the file, only tested programs are installed, nothing temporary stays |

`PresenterInvariant`, `PanelInvariant`, `ShellInvariant`, `ReleaseInvariant` and
`DraftInvariant` are conjunctions of a type invariant and named parts
(`RetryWhileUnread`, `RowsAnswerTheNewestSearch`, `NothingOutlivesTheWindow`, ...), each
with its own comment in its module.

### Bounds

* Two processes: the protocols are symmetric and pairwise (a lock has one
  holder; a stale read needs one reader and one writer). The journal needs three,
  because the lost pair takes two deaths and a survivor. The theorems of section 4 hold
  for any number; the bounds below matter to liveness alone, and to the
  confidence that the states the theorems speak of are reached. The application is unique per session and presents its
  window again when it is started twice, so `native` has one window and the tool; the
  two windows of `journal` and `reconcile` allow more than one session can do.
* Two values per field, or one where the field plays no part: enough to tell the
  old value from the new one. In `policy_model` the only location is "unset", and a
  rollback is seen through the clock mode the tool changes in the same update; the
  theorems cover every set of locations. `native` adds to the two conventional
  modes the legacy and an extended one, which the handlers tell apart.
* `MaxEdits`, `MaxRequests`, `MaxChanges`, `MaxMoves` bound what users and other
  programs do, never what the program does in reply; `MaxFaults` bounds failures. Two
  requests let one be superseded by another or run beside one of another kind; three
  edits let a native change race a save with one more behind it; four changes let a
  directory vanish and come back with its file (`Misremembered` takes a fifth, which
  the theorem covers); three moves of the panel are a typed
  number, a foreign change and one more (four also pass); six of the shell open,
  leave, turn back and return with a change of policy in between.
* `Depth` 2 is the shortest chain in which the watch can be on an ancestor, on the
  right directory or one level off. `MaxDay` 1 is one midnight.
* `Half` 16, `Footer` 3 and lengths 1 and 5: every length a footer can claim is
  enumerated, the ones that make the sum wrap and the cast negative among them.
* `FieldEnds` are both ends of every range of a typed field and one past them;
  `DaysOfChange` a day without a gap and gaps in the morning, at midnight and before it.
* `DateTimeModel`, `LocalityJournal` and `LocalityReconcile` need no bound: their
  state is finite for finite constants, and deadlock is checked. The others stop
  when a bound is used up, hence `CHECK_DEADLOCK FALSE` there.
* Generations are counters of C type `guint`; their wrap-around after 2^32
  requests of one panel is not modelled.

### Fairness

* `DateTimeModel`: weak fairness of `Continue(p)`. An operation is straight-line
  code on its own thread; the one wait in it, for the lock, is bounded.
* `NativeClockSync`: the same, and weak fairness of a window's `HandleEvent`:
  GLib's main loop dispatches what is pending; and of the steps of a window's opening,
  which is one function.
* `LocalityReconcile`: strong fairness of the reconciliation, since the main loop
  may serve other sources in between but does reach the timedated signal.
* `SystemTime`: weak fairness of a call's end. GDBus ends every call with an
  answer, an error or its timeout. timedated itself is given no fairness.
* `HomePresenter`: weak fairness of the presenter's events and timers, of the page's
  ticker and of GIO's search for a missing directory. Opening, closing and the other
  programs owe nothing.
* `PanelControls`: weak fairness of the two file handlers and of the retry timer, and
  of the other process's next step: who holds the locality lock goes on or dies.
* `ShellWindow`: weak fairness of the preview's timer and idle callback and of the end
  of a transition.

## 4. Proofs

Eight modules hold theorems. Together they state every invariant and every action
property of the runs, and the refinement, for all values of the constants: any number of
processes, windows and tools, any sets of values, any choice of faults and any bound
on what users do. The assumptions are the modules' own and named there: special
values (`Absent`, `NoProc`, `None`, ...) lie outside the sets they are added to, bounds
are natural numbers, and a reference point is a place. Each invariant is proved by an
inductive strengthening `IInv`, which TLC checked on the run's instance first; its
preservation has one lemma or step per action or group of actions.

**`DateTimeModelProofs`** (`DateTimeModel`, `NativeClockSync`): `TypeCorrect`,
`LockSafety`, `CandidateSafety`, `PersistBeforePublish`, `Refinement`; `WindowsAgree`,
`DesktopAgrees`, `ExtendedModesAreKept`. `CandidateFresh` says: between load and save the
file is still what was loaded, and from the save to the end of the operation it is the
candidate. That needs that no other process writes meanwhile, which is `LockOwnership`
(whoever is at a step that writes holds the lock), and three facts about one process:
only a location update is reversible, the steps after the save that keep the lock
belong to one, and what the history variable remembers is the candidate. `Refinement`
maps each action to asking for an edit, making it or giving it up, opening, keeping or
taking back a tentative change, or a stutter; `CandidateFresh` shows that the edit is
made in the register's current value. Of the synchronisation, "at rest they agree" is
not inductive: the proof says what is pending when they do not. A window whose copy is
old has a file event waiting, is about to publish, is dead, or is recorded in `unread`
(`UnobservedIsCurrent`), which needs that whoever runs an operation observes the file
(`OperatingListens`); a desktop that differs from the file has a step of some process or
an event before it that will mirror or save again (`DisagreementIsPending`). An
operation begun for a native key keeps, until its save, the model by which it was
judged, a conventional or the legacy mode (`TrackedModeFollows`): an extended mode it
replaces is one that the window had not read.

**`LocalityJournalProofs`** (`LocalityJournal`, `LocalityReconcile`): `TypeCorrect`,
`PairRecoverable`, `RollbackRestores`, `PublicationFollowsCommit`; `ChosenPlaceIsSafe`,
`RewrittenMetadataFollows`. `location.lock` admits one transaction or recovery; what that
one knows of the three files at each of its steps is the invariant (`Knows`): the new
place is committed only with its stage on disk, the journal is removed only when
`location.ini` says the same, the place to restore is the one loaded, and without a
slip the old place was published before its journal was overwritten. Even the types
need part of it. Reconciliation breaks the pair by design, since reference coordinates
have no metadata, so the composition has an invariant of its own: what each process
knows of the locks and its stage, and that what a reconciliation found under the lock
still holds when it acts on it (`FindingHolds`).

**`SystemTimeProofs`** (`SystemTime`): `TypeCorrect`, `ReferencesAreExact`,
`NewestDecides`, `ControlsShowActual`, `LateRepliesAreInert`. Reference counts are the
number of calls in flight and owners, so the calls are finitely many and no two belong
to one generation of one operation (`CallsDistinct`). The controls are right because
the last signal in flight, or else the cache, is timedated's state (`ProxyTold`), and an
open connected panel has handled all its proxy has (`Listens`).

**`ManualDraftProofs`** (`ManualTime`, `ManualDraft`): `EveryProfileExact` and
`EveryProfileReversible` say of each clock what TLC evaluates at chosen fields: for every
text of two-digit fields and every set of gaps, an accepted time exists and its face is
what was typed; every second of a day is read back from its face. They are arithmetic:
division with remainder by 60 and by 100, and the ticks of a decimal second.
`EditorAlwaysReadsBack` applies them to the clock the editor is offered in.
`DraftsKeepTheirMeaning` and `EditorIsConsistent` need that a draft exists only while the
editor is offered or timedated cannot be read, that it is offered for the properties the
proxy holds, and that the last announcement in flight is timedated's state or its end. The fields of a text are two digits
(`FieldAssumption`), as `parse_field` accepts them.

**`HomePresenterProofs`** (`PolicyFileObserver`, `HomePresenter`):
`PresenterIsConsistent`, `WatchIsNearest`, `HomeAgrees`, for a file at any depth. "At
rest" again becomes "otherwise something is announced": a watch on an ancestor has the
event of the directory that appeared below it in its queue (`NearestIsAnnounced`), and a
policy that differs from the file has an event of the file, or of its lost directory,
before it (`ChangesAreAnnounced`), also in the middle of `bind_monitor`, when the watch is
bound, its events are not dispatched and the callback has not been called.

**`PanelControlsProofs`** (`PanelControls`): `PanelIsConsistent`, `SpinIsSaved`,
`PendingIsTyped`. The spin buttons are filled from the model's copy of the place, so that
copy must be the saved one while a commit is pending as well (`PlaceIsSaved`). The set of
reference points is any, with or without `None`. A reconciliation and a failing transaction
have a lemma each on what they do to files, copies and buttons (`ReconcileEffect`,
`FailsEffect`).

**`ShellWindowProofs`** (`PanelPreview`, `ShellWindow`): `ShellIsConsistent`,
`TimersFollowThePage`. GTK's map and unmap signals are computed from what is visible before
and after a handler (`Signals`), so the proof follows which of the two pages on the screen
is which; nothing is loaded outside an open window (`LoadedInWindow`).

**`NativeInstallerProofs`** (`SourceAssetBuilder`, `NativeInstaller`):
`ReleaseIsOneCommit`, `CopyIsInside`, `TestedBeforeInstalled`, `ReleaseIsAccountedFor`.
The builder's invariant is what each stage may rely on: values are read before they are
used, and until the repository moves, what was read, exported and packed is one commit.
`CopyIsInside` holds for every word size and every length a footer can claim, given that
the real lengths do not add up beyond the largest `off_t` (`LengthAssumption`).

What the proofs changed in the models:

* `HomeAgreesAtRest` was false from the fifth change on: the proof met the removal event
  that is dropped with its watch (section 5, *Observer*). The exception is now part of
  `missed`. A run of five changes confirms it, with `HomeSettles`; `home_presenter`
  keeps to four for its time.
* Words were `2^Width` values; the prover has no exponentiation, and nothing depends on
  the size being a power of two, so `Half` is the parameter.
* `transaction_begin` had overlapping `CASE` guards, which left its target open to the
  prover; `ShellWindow` relied on `None` being no page, and `HomePresenter` and
  `SourceAssetBuilder` on constants being what their names say: these are assumptions now.

Only model-checked: liveness (`OperationEnds`, `Settles`, `RequestsEnd`, `HomeSettles`,
`PairIsCompleted`, `PreviewSettles`), which is out of the prover's reach. That the fairness
conditions are enough for it, and how long the chains of feedback get, TLC shows on the
instances above. The two refuted statements of section 5 have no theorem, of course.

## 5. Where code and documentation disagree

Each has a run that TLC refutes, and an entry under "findings" with the line quoted.

1. **The reference point does not follow the zone** (`reference_follows`). The decision
   whether the policy merely follows the zone compares the configured coordinates
   with the *new* zone's reference. After the first change the old reference looks
   like a place of the user's own and stays.
2. **The date label may name another calendar** (`preview_date`). A calendar that
   cannot be formatted writes its notice over the label and leaves the cache alone;
   back on the calendar formatted before, every refresh is a cache hit that rewrites
   nothing until midnight.

Where a property has an exception by name, the exception is what the code does today:

* *Journal* (`slips`). Staging does not finish or check a journal left by a process
  that died (`location-metadata.c:266`); a second death before the next save loses the
  record of the committed place. A save that fails after it has reached the disk is
  followed by the removal of the staged record; the store's contract cannot tell the
  two failures apart.
* *Native clock* (`excused`, `observed`, `unread`). A reload that fails is reported and
  never tried again, and a change between the panel's load and its observer is not even
  noticed: the window keeps the old policy until the next event or save. Meanwhile it
  judges native keys by it: a key equal to the old mode is not brought into the policy,
  and one that differs can replace an extended mode. A native signal that is compared with a policy
  the tool has just replaced is turned down, or taken over an extended mode, and
  the reload that follows does not compare again. With two windows, which the
  application does not open, each can handle the signal between the other's save and
  its mirroring, and they may exchange their values for as long as the timing repeats.
* *Draft* (`silent`). Following the desktop's 12/24-hour setting, a setter of another
  field and the reload inside a reconciliation adopt a clock mode without invalidating
  the draft. The regional context may be ahead of the proxy's cache; the signal that
  follows then finds the zone unchanged and keeps the draft.
* *System time.* A D-Bus timeout is taken for the end of an operation; timedated may
  still be waiting for the authorisation of a zone change when the window computes and
  sends a wall time. When timedated leaves the bus, for instance at its idle exit, the
  controls show it as unavailable until it is activated again.
* *Observer* (`raced`, `missed`). A watch on a directory that is no longer the nearest
  when it starts stays there until something happens in it. The retry of a watch, a
  watch GIO has resumed and the first attachment do not look at the file again, so
  a change made before them is seen at the next event. `bind_monitor` cancels the old
  monitor with its undispatched events and `monitor_changed` compares existence only:
  when the file appeared between the presenter's load and the observer's first look,
  or was read by the retry timer, the removal of a file that `target_exists` does not
  know of is dropped with the watch, and Home keeps the policy until the next event.
* *Home.* Without a policy file the clock keeps the format the desktop had when the
  default policy was made; a later change of the desktop is not followed.
* *Panel controls* (`refilled`, `skipped`, `unread`, `outdated`). Without a place and in a
  zone that has no reference point (`Etc/UTC`) nothing refills the spin buttons: after a
  failed commit, or when another program clears the place, they keep the old numbers. When
  only the zone is detected anew they show the old reference point until they are next
  filled. Filling the spin buttons under a
  running commit timer lets it commit coordinates nobody typed, as custom ones. The
  file event of the panel's own save cancels an edit that was begun meanwhile. A policy
  that cannot be reloaded cancels the edit and leaves its numbers on the screen. A panel
  that reports a failed migration does not schedule the retry of a failed recovery.
* *Preview.* Following a native key restarts the preview's timer and leaves the labels
  to its next tick.
* *Release* (`mixed`, `stuck`). A HEAD or working tree that moves between the builder's
  commands mixes two commits, undetected. A source directory that cannot be made leaves
  the workspace behind; a verification that fails leaves the `.run` file; `--build-only`
  removes the package together with its tree.

## 6. Not modelled

* Panel widgets, theme, layout and wording: construction of widgets, no protocol.
* The serialisation of the policy and the clock and calendar implementations: they
  belong to Infiltratr Common, which is not in this repository. The models take from
  it that a policy loads or is malformed, and that a date is formatted or is not.
* The regional context: a reader of the locale, `/etc/localtime` and `zone.tab`, character
  by character. `LocalityReconcile` takes the reference of each zone as a constant.
* The list of time zones, the shell's search filter, module catalogue and lookup of
  trusted programs: pure filters over what is installed.
* The Windows store: it has the contract of the Linux one (bounded lock, load, atomic
  replacement, removal), and only the tool and the tests use it.
* The instant a preview or Home timer is armed for; the models only say that an armed
  timer fires.

## 7. Plan

1. A refinement for the journal: policy and metadata as one record that a transaction
   replaces or leaves, of which `OnlySlipsLoseAPair` is the invariant half; and one for
   the system-time service, as a set of requests each answered at most once.
2. The Windows store as a second implementation of `PolicyRegister`.
3. The reference points of the regional context as a pure operator over a table.
