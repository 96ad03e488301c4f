------------------------ MODULE PolicyFileObserver --------------------------
(***************************************************************************)
(* The observer of presentation.conf.  The file is replaced by rename, and *)
(* the directories above it may come and go, so the observer watches the   *)
(* nearest directory that exists and moves its watch when that changes.    *)
(* Other processes act between the observer's choice of a directory and    *)
(* the start of the watch, so the two are separate steps here.             *)
(*                                                                         *)
(* Directory 0 always exists and directory Depth is the file's own; the    *)
(* existing ones are 0..top.  The module defines the observer's state and  *)
(* steps; a client supplies the callback and the next-state relation.      *)
(***************************************************************************)
EXTENDS Naturals, Sequences

CONSTANTS
  Depth,               \* directories between the file and one that stays
  Policy,              \* contents of the policy file
  Absent,              \* there is no policy file
  MaxFaults            \* bound on failures of g_file_monitor_directory

ASSUME DepthAssumption == Depth \in Nat \ {0}
ASSUME FaultAssumption == MaxFaults \in Nat
ASSUME FileAbsentAssumption == Absent \notin Policy

Idle == [call |-> "none", target |-> FALSE, directory |-> 0]
NoWatch == [directory |-> 0, live |-> FALSE, bound |-> FALSE]

VARIABLES
  top,                 \* the deepest directory that exists
  file,                \* what presentation.conf holds
  watch,               \* watch_directory and its GFileMonitor
  queue,               \* events of the monitor that wait for the main loop
  target_exists,       \* what the observer last saw of the file
  rebind,              \* retry_id: a retry of the watch is scheduled
  busy,                \* the call of the observer that is under way
  faults,              \* history: failed watches
  raced                \* history: the directory chosen was no longer nearest

filesystem == <<top, file>>
observer == <<watch, queue, target_exists, rebind, busy, faults, raced>>

ObserverTypeOK ==
  /\ top \in 0..Depth
  /\ file \in Policy \cup {Absent}
  /\ watch \in [directory : 0..Depth, live : BOOLEAN, bound : BOOLEAN]
  /\ queue \in Seq({"target", "other"})
  /\ target_exists \in BOOLEAN
  /\ rebind \in BOOLEAN
  /\ busy \in [call : {"none", "load", "new", "monitor_changed", "retry_bind"},
               target : BOOLEAN, directory : 0..Depth]
  /\ faults \in 0..MaxFaults
  /\ raced \in BOOLEAN

ObserverInit ==
  /\ top \in 0..Depth
  /\ file \in IF top = Depth THEN Policy \cup {Absent} ELSE {Absent}
  /\ watch = NoWatch /\ queue = <<>>
  /\ target_exists = FALSE
  /\ rebind = FALSE
  /\ busy = Idle
  /\ faults = 0
  /\ raced = FALSE

-----------------------------------------------------------------------------
(* The file system and GIO.                                                *)

\* Events arrive in order; like ones in a row count as one.
Add(event) ==
  IF queue # <<>> /\ queue[Len(queue)] = event THEN queue ELSE Append(queue, event)

\* A live monitor reports what happens in and to the directory it watches.
Notify(event, directories) ==
  queue' = IF watch.live /\ watch.directory \in directories THEN Add(event) ELSE queue

MakeDirectory ==
  /\ top < Depth
  /\ top' = top + 1
  /\ Notify("other", {top})
  /\ UNCHANGED <<file, watch>>

\* The watch of a removed directory reports the removal and is dead.
RemoveDirectory ==
  /\ top > 0 /\ file = Absent
  /\ top' = top - 1
  /\ Notify("other", {top, top - 1})
  /\ watch' = IF watch.directory = top THEN [watch EXCEPT !.live = FALSE] ELSE watch
  /\ UNCHANGED file

\* Created, replaced or removed; an atomic writer's temporary file is the
\* other endpoint of the rename.
ChangeFile(content) ==
  /\ top = Depth /\ content # file
  /\ file' = content
  /\ Notify("target", {Depth})
  /\ UNCHANGED <<top, watch>>

\* Something else happens in a directory.
Unrelated ==
  /\ watch.live
  /\ queue' = Add("other")
  /\ UNCHANGED <<top, file, watch>>

\* GIO looks for the directory of a dead watch and reports its return.
monitor_resumes ==
  /\ watch.bound /\ ~watch.live /\ watch.directory <= top
  /\ watch' = [watch EXCEPT !.live = TRUE]
  /\ queue' = Add("other")
  /\ UNCHANGED <<top, file>>

-----------------------------------------------------------------------------
(* The observer.                                                           *)

Exists == file # Absent
nearest_existing_directory == top

\* The watch is where it should be, and works.
Watching == watch.live /\ watch.directory = top

Begin(call, target) ==
  busy' = [call |-> call, target |-> target, directory |-> nearest_existing_directory]

\* ss_policy_file_observer_new, up to its choice of a directory
ss_policy_file_observer_new ==
  /\ target_exists' = Exists
  /\ Begin("new", FALSE)

\* A relevant event is dispatched and the directory it calls for is found.
monitor_changed ==
  /\ busy = Idle /\ queue # <<>>
  /\ queue' = Tail(queue)
  /\ Begin("monitor_changed", Head(queue) = "target")
  /\ UNCHANGED <<watch, target_exists, rebind, faults, raced>>

\* The 30 second timer fires.
retry_bind ==
  /\ busy = Idle /\ rebind
  /\ Begin("retry_bind", FALSE)
  /\ UNCHANGED <<watch, queue, target_exists, rebind, faults, raced>>

\* The call under way changes nothing about the watch.
Bound == watch.bound /\ watch.directory = busy.directory

watch_kept ==
  /\ Bound
  /\ rebind' = (rebind /\ busy.call # "retry_bind")
  /\ UNCHANGED <<watch, queue, faults, raced>>

\* Mutant: a watch that could not be started is not tried again.
watch_fails_for_good ==
  /\ ~Bound
  /\ faults < MaxFaults /\ faults' = faults + 1
  /\ UNCHANGED <<watch, queue, rebind, raced>>

\* bind_monitor when g_file_monitor_directory returns NULL; schedule_retry
watch_fails ==
  /\ ~Bound
  /\ faults < MaxFaults /\ faults' = faults + 1
  /\ rebind' = TRUE
  /\ UNCHANGED <<watch, queue, raced>>

\* bind_monitor when it succeeds: the old monitor and its events are gone.
watch_starts ==
  /\ ~Bound
  /\ watch' = [directory |-> busy.directory, live |-> busy.directory <= top, bound |-> TRUE]
  /\ queue' = <<>>
  /\ rebind' = FALSE
  /\ raced' = (busy.directory # top)
  /\ UNCHANGED faults

\* Mutant: a watch that has moved is no reason to report the file.
Reports_transitions(rebound) ==
  \/ busy.target
  \/ target_exists # target_exists'

\* monitor_changed calls back.
Reports(rebound) ==
  \/ busy.target
  \/ target_exists # target_exists'
  \/ rebound /\ target_exists'

\* ss_policy_file_observer_free
ss_policy_file_observer_free ==
  /\ watch' = NoWatch /\ queue' = <<>>
  /\ rebind' = FALSE
  /\ UNCHANGED <<target_exists, busy, faults, raced>>

\* Nothing is under way, and no timer of the observer or of GIO is pending.
ObserverAtRest == busy = Idle /\ queue = <<>> /\ ~rebind /\ (watch.directory <= top => watch.live)
=============================================================================
