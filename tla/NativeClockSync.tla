-------------------------- MODULE NativeClockSync ---------------------------
(***************************************************************************)
(* Two-way traffic between the temporal policy and the native Cinnamon     *)
(* clock settings.  A saved policy is mirrored into the native keys; a     *)
(* native key that another program changes is brought into the policy by   *)
(* on_cinnamon_interface_changed in every open window, as an ordinary      *)
(* setter of DateTimeModel.  Windows learn of the saves of others through  *)
(* their policy-file observer and reload; the command-line tool saves and  *)
(* listens to nothing.                                                     *)
(*                                                                         *)
(* A window that opens loads the policy first, then attaches its observer, *)
(* then connects to the native keys, and last migrates a legacy clock mode;*)
(* what changes in between is not announced to it.  A reload may fail: its *)
(* event is gone, and the window keeps the policy it had.                  *)
(*                                                                         *)
(* Signals are queued until the window's main loop is idle.  A window may  *)
(* or may not see the signals of its own mirroring: those delivered while  *)
(* it is saving are dropped.  Users act at most MaxEdits times.            *)
(*                                                                         *)
(* Definitions introduced by "Mutant:" are slips the properties must catch;*)
(* no other definition uses them.                                          *)
(***************************************************************************)
EXTENDS DateTimeModel, Naturals

CONSTANTS
  Window,              \* the processes that are windows; the others are tools
  MaxEdits             \* bound on the number of acts of users

ASSUME WindowAssumption == Window \subseteq Proc
ASSUME MaxEditsAssumption == MaxEdits \in Nat

VARIABLES
  stage,               \* how far each window has come in its opening
  signals,             \* native keys whose "changed" signal waits, per window
  observed,            \* windows with a policy-file event waiting
  tracking,            \* windows whose operation brings a native key into the policy
  unread,              \* history: windows that were not told of a change of the
                       \* file, or could not reload it, and have not read it since
  edits,               \* history: how often users have acted
  excused              \* history: a save or a mirroring failed, nobody listened,
                       \* or a native key was judged by a policy that was not the
                       \* one on disk

events == <<signals, observed>>
syncVars == <<vars, stage, events, tracking, unread, edits, excused>>

Key == {"clock", "seconds"}

\* The stages of ss_linux_date_time_panel_new.
Stage == {"closed", "loaded", "observing", "connected", "open"}
Observing(p) == stage[p] \in {"observing", "connected", "open"}
Connected(p) == stage[p] \in {"connected", "open"}

\* The identifier of policies written before the two conventional modes were told
\* apart; it follows the desktop like they do.
LegacyMode == "standard"
ss_native_clock_mode_tracks_desktop(mode) == mode \in StandardMode \cup {LegacyMode}

\* Desktop and policy agree to begin with.
SyncInit ==
  /\ Init
  /\ file \in Policy => CompatibilityMatches(file, native)
  /\ stage = [p \in Window |-> "closed"]
  /\ signals = [p \in Window |-> {}]
  /\ observed = {}
  /\ tracking = {}
  /\ unread = {}
  /\ edits = 0
  /\ excused = FALSE

-----------------------------------------------------------------------------
\* Mutant: signals reach only a window that is not saving.
NotifyIdle(deaf) ==
  LET keys == {k \in Key : native'[k] # native[k]}
  IN  /\ signals' = [q \in Window |-> IF Connected(q) /\ pc[q] = "idle"
                                         THEN signals[q] \cup keys ELSE signals[q]]
      /\ observed' = IF file' = file THEN observed ELSE {q \in Window : Observing(q)}

\* The step has changed native keys or the policy file: the windows that listen
\* hear of it.
Notify(deaf) ==
  LET keys == {k \in Key : native'[k] # native[k]}
  IN  /\ signals' = [q \in Window |-> IF Connected(q) /\ q \notin deaf
                                         THEN signals[q] \cup keys ELSE signals[q]]
      /\ observed' = IF file' = file THEN observed ELSE {q \in Window : Observing(q)}

\* The windows that have loaded the policy and do not watch the file yet.
Missing == IF file' = file THEN {} ELSE {q \in Window : stage[q] = "loaded"}

\* A panel is opened and loads the policy, or the tool is run.
Open(p) ==
  /\ Start(p)
  /\ stage' = [q \in Window |-> IF q = p THEN "loaded" ELSE stage[q]]
  /\ UNCHANGED <<events, tracking, unread, edits, excused>>

OpenFurther(p, from, to) == stage[p] = from /\ stage' = [stage EXCEPT ![p] = to]

\* The observer reports what happens to the file from here on.
ss_policy_file_observer_new(p) ==
  /\ OpenFurther(p, "loaded", "observing")
  /\ UNCHANGED <<vars, events, tracking, unread, edits, excused>>

\* Likewise for the native keys, whose "changed" signal is connected.
ss_cinnamon_interface_settings_new(p) ==
  /\ OpenFurther(p, "observing", "connected")
  /\ UNCHANGED <<vars, events, tracking, unread, edits, excused>>

\* A legacy mode is replaced by the desktop's.  (A policy that is not persisted
\* has been seeded from the desktop and is no legacy one.)
migrate_legacy_native_clock(p) ==
  /\ OpenFurther(p, "connected", "open")
  /\ IF mem[p].policy.clock = LegacyMode
       THEN /\ Call(p, [NoChange EXCEPT !.clock = native.clock], FALSE)
            /\ tracking' = tracking \cup {p}
       ELSE UNCHANGED <<vars, tracking>>
  /\ UNCHANGED <<events, unread, edits, excused>>

ContinueOpening(p) ==
  \/ ss_policy_file_observer_new(p)
  \/ ss_cinnamon_interface_settings_new(p)
  \/ migrate_legacy_native_clock(p)

\* The user picks a mode, which the list offers all but the legacy one of, or
\* switches the seconds.
WindowSets(p) ==
  /\ stage[p] = "open"
  /\ \/ \E m \in ClockMode \ {LegacyMode} : Call(p, [NoChange EXCEPT !.clock = m], FALSE)
     \/ set_show_seconds(p)

\* A user acts in the window, or the tool makes the edit its options name.
UserSets(p) ==
  /\ edits < MaxEdits
  /\ IF p \in Window THEN WindowSets(p) ELSE cli_invocation(p)
  /\ edits' = edits + 1
  /\ UNCHANGED <<stage, events, tracking, unread, excused>>

\* Another program writes the native keys.
OtherProgramSets ==
  /\ edits < MaxEdits
  /\ DesktopChange /\ native' # native
  /\ Notify({})
  /\ edits' = edits + 1
  /\ excused' = (excused \/ \A p \in Window : ~Connected(p))
  /\ UNCHANGED <<stage, tracking, unread>>

\* Mutant: an extended mode follows the key as well.
ShouldTrack_any(p, key) == mem[p].policy[key] # native[key]

\* The policy the window holds can follow the key, and differs from it.
ShouldTrack(p, key) ==
  /\ key = "clock" => ss_native_clock_mode_tracks_desktop(mem[p].policy.clock)
  /\ mem[p].policy[key] # native[key]

on_cinnamon_interface_changed(p, key) ==
  /\ stage[p] = "open" /\ pc[p] = "idle" /\ key \in signals[p]
  /\ signals' = [signals EXCEPT ![p] = @ \ {key}]
  /\ IF ShouldTrack(p, key)
       THEN /\ Call(p, [NoChange EXCEPT ![key] = native[key]], FALSE)
            /\ tracking' = tracking \cup {p}
       ELSE UNCHANGED <<vars, tracking>>
  /\ excused' = (excused \/ /\ ~ShouldTrack(p, key) /\ mem[p].policy # file
                            /\ p \in observed \cup unread)
  /\ UNCHANGED <<stage, observed, unread, edits>>

\* Mutant: the event does not reload the model.
policy_file_changed_ignored(p) ==
  /\ stage[p] = "open" /\ pc[p] = "idle" /\ p \in observed
  /\ observed' = observed \ {p}
  /\ UNCHANGED <<vars, stage, signals, tracking, unread, edits, excused>>

policy_file_changed(p) ==
  /\ stage[p] = "open" /\ p \in observed
  /\ reload(p)
  /\ observed' = observed \ {p}
  /\ unread' = unread \ {p}
  /\ UNCHANGED <<stage, signals, tracking, edits, excused>>

\* The file cannot be read: the policy in memory stays, and nothing tries again.
policy_file_changed_fails(p) ==
  /\ stage[p] = "open" /\ pc[p] = "idle" /\ p \in observed
  /\ observed' = observed \ {p}
  /\ unread' = unread \cup {p}
  /\ UNCHANGED <<vars, stage, signals, tracking, edits, excused>>

\* A step of an operation that is under way.
OperationStep(p) ==
  /\ Continue(p)
  /\ \E deaf \in {{}, {p}} : Notify(deaf)
  /\ tracking' = IF pc'[p] = "idle" THEN tracking \ {p} ELSE tracking
  /\ unread' = IF pc[p] = "publish" THEN unread \ {p} ELSE unread \cup Missing
  /\ excused' = (\/ excused
                 \/ pc'[p] = "idle" /\ pc[p] # "publish"
                 \/ pc[p] = "mirror" /\ ~CompatibilityMatches(Candidate(p), native'))
  /\ UNCHANGED <<stage, edits>>

HandleEvent(p) ==
  \/ policy_file_changed(p)
  \/ policy_file_changed_fails(p)
  \/ \E key \in Key : on_cinnamon_interface_changed(p, key)

SyncNext ==
  \/ \E p \in Proc : Open(p) \/ UserSets(p) \/ OperationStep(p)
  \/ \E p \in Window : ContinueOpening(p) \/ HandleEvent(p)
  \/ OtherProgramSets

SyncSpec == SyncInit /\ [][SyncNext]_syncVars

\* Operations and the opening of a window run to their end, and its main loop
\* handles the events that are waiting.
SyncFairSpec ==
  /\ SyncSpec
  /\ \A p \in Proc : WF_syncVars(OperationStep(p))
  /\ \A p \in Window : WF_syncVars(ContinueOpening(p)) /\ WF_syncVars(HandleEvent(p))

-----------------------------------------------------------------------------
(* What must hold.                                                         *)

Quiet ==
  /\ \A p \in Proc : pc[p] \in {"down", "idle"}
  /\ \A p \in Window : signals[p] = {}
  /\ observed = {}

\* When no event is left, every window shows the policy that is on disk, whoever
\* wrote it last (policy_file_changed, save_candidate), but for one whose last
\* reload failed, and for one that opened while the file changed between its load
\* and its observer and has not read it since.
WindowsAgreeAtRest ==
  Quiet /\ file \in Policy =>
    \A p \in Window : pc[p] # "down" /\ p \notin unread => mem[p].policy = file

\* "The module reconciles that native state into the equivalent explicit System
\* Settings choice when doing so is lossless" (on_cinnamon_interface_changed):
\* when no event is left and nothing failed, policy and desktop agree, unless a
\* window turned a native key down by a policy that was not the one on disk: one
\* whose replacement still waited in its queue (policy_file_changed does not
\* compare the desktop again), was missed, or could not be read.
DesktopAgreesAtRest ==
  Quiet /\ ~excused /\ file \in Policy => CompatibilityMatches(file, native)

\* Mirroring and tracking do not feed one another for ever: once users stop,
\* everything comes to rest (a window that mirrors a policy hears its own
\* signals again).
Settles == <>[]Quiet

\* "Extended modes do not get overwritten merely because some unrelated native
\* compatibility value changed" (on_cinnamon_interface_changed and the migration
\* decide with the policy in memory, begin_candidate loads the file again): an
\* operation that brings a native key into the policy replaces an extended clock
\* mode only while the window does not know of that mode, its news being still in
\* the queue, missed, or unreadable.
OnlyUnreadModesAreReplaced ==
  [][\A p \in tracking :
       /\ pc[p] = "save" /\ file \in Policy
       /\ ~ss_native_clock_mode_tracks_desktop(file.clock)
       => \/ file' = file
          \/ file'.clock = file.clock
          \/ p \in observed \cup unread]_syncVars
=============================================================================
