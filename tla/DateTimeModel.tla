--------------------------- MODULE DateTimeModel ----------------------------
(***************************************************************************)
(* Every process that edits the temporal policy owns one date-time model   *)
(* over the one shared store: presentation.conf, the advisory lock         *)
(* presentation.lock, and the native Cinnamon keys the store mirrors a     *)
(* saved policy into.                                                      *)
(*                                                                         *)
(* A setter takes the lock, loads the policy afresh, changes its own field,*)
(* saves, mirrors, releases the lock and then publishes the candidate in   *)
(* memory; an invocation of the command-line tool does the same with all   *)
(* the fields its options name.  A reversible location update keeps the    *)
(* lock after its save until the caller finishes it or rolls it back.      *)
(*                                                                         *)
(* A process is single-threaded, so `saving' is exactly "an operation is   *)
(* under way".  Between two steps of one process any other process may     *)
(* run, and a process may die: the kernel then drops its lock.             *)
(*                                                                         *)
(* Definitions introduced by "Mutant:" are slips the properties must catch;*)
(* no other definition uses them.                                          *)
(***************************************************************************)
EXTENDS TemporalPolicy

CONSTANTS
  Proc,                \* processes that use the store
  NoProc,              \* nobody holds the lock
  CliEdit,             \* the edits invocations of the command-line tool make
  Invalid,             \* an empty or malformed policy file
  Nothing              \* nothing saved, asked for or to be undone

ASSUME NoProcAssumption == NoProc \notin Proc
ASSUME CliEditAssumption == CliEdit \subseteq Change
ASSUME InvalidAssumption == Invalid \notin Policy \cup {Absent}
ASSUME NothingAssumption == Nothing \notin Policy \cup Change \cup {Absent}

VARIABLES
  file,                \* presentation.conf
  native,              \* Cinnamon's clock-use-24h and clock-show-seconds
  lock,                \* holder of presentation.lock
  pc,                  \* where each process is in its operation
  op,                  \* the change it is making and whether it is reversible
  cand,                \* the candidate it loaded, and whether a file was found
  mem,                 \* the policy its model publishes, and whether persisted
  written              \* history: what its operation has saved so far

vars == <<file, native, lock, pc, op, cand, mem, written>>
shared == <<file, native, lock>>

Step ==
  {"down", "idle", "acquire", "load", "save", "mirror", "commit", "publish",
   "open", "undo_mirror", "undone"}

\* Steps at which the process owns presentation.lock.
Holding == {"load", "save", "mirror", "commit", "open", "undo_mirror", "undone"}

Loaded == [policy : Policy, found : BOOLEAN]
Operation == [change : Change, reversible : BOOLEAN]

NoOp == [change |-> NoChange, reversible |-> FALSE]
Unloaded ==
  [policy |-> Seed([clock |-> "standard-24", seconds |-> "hidden"]), found |-> FALSE]

TypeOK ==
  /\ file \in Policy \cup {Absent, Invalid}
  /\ native \in Native
  /\ lock \in Proc \cup {NoProc}
  /\ pc \in [Proc -> Step]
  /\ op \in [Proc -> Operation]
  /\ cand \in [Proc -> Loaded]
  /\ mem \in [Proc -> Loaded]
  /\ written \in [Proc -> Policy \cup {Nothing}]

Init ==
  /\ file \in Policy \cup {Absent, Invalid}
  /\ native \in Native
  /\ lock = NoProc
  /\ pc = [p \in Proc |-> "down"]
  /\ op = [p \in Proc |-> NoOp]
  /\ cand = [p \in Proc |-> Unloaded]
  /\ mem = [p \in Proc |-> Unloaded]
  /\ written = [p \in Proc |-> Nothing]

-----------------------------------------------------------------------------
(* The store.                                                              *)

\* Mutant: whatever the file holds is taken for a policy.
platform_load_unchecked == [policy |-> file, found |-> TRUE]

\* An empty or malformed file is recovered like a missing one, with defaults
\* seeded from the desktop.
platform_load ==
  IF file \in Policy THEN [policy |-> file, found |-> TRUE]
                     ELSE [policy |-> Seed(native), found |-> FALSE]

\* After a save each of the two keys is written, best effort.
mirror_cinnamon_compatibility(pol) ==
  native' \in {n \in Native : /\ n.clock \in {native.clock, MirroredClock(pol, native)}
                              /\ n.seconds \in {native.seconds, pol.seconds}}

\* A failed write or removal may already have reached the directory entry.
MayHaveWritten(content) == file' \in {file, content}

-----------------------------------------------------------------------------
(* Steps shared by all operations.                                         *)

Goto(p, to) == pc' = [pc EXCEPT ![p] = to]

\* The operation returns to its caller.
Return(p) ==
  /\ Goto(p, "idle")
  /\ op' = [op EXCEPT ![p] = NoOp]
  /\ cand' = [cand EXCEPT ![p] = Unloaded]
  /\ written' = [written EXCEPT ![p] = Nothing]

\* release_update_lock, and return.
EndOperation(p) == lock' = NoProc /\ Return(p)

\* ss_date_time_model_init: the first reload; a failed one leaves no model.
Start(p) ==
  /\ pc[p] = "down"
  /\ Goto(p, "idle")
  /\ mem' = [mem EXCEPT ![p] = platform_load]
  /\ UNCHANGED <<shared, op, cand, written>>

\* Rejected while saving; a failed load leaves the model as it was.
reload(p) ==
  /\ pc[p] = "idle"
  /\ mem' = [mem EXCEPT ![p] = platform_load]
  /\ UNCHANGED <<shared, pc, op, cand, written>>

normalize_unpersisted_clock_mode(p, mode) ==
  /\ pc[p] = "idle"
  /\ ~mem[p].found
  /\ mem' = [mem EXCEPT ![p].policy.clock = mode]
  /\ UNCHANGED <<shared, pc, op, cand, written>>

\* A setter or begin_location_update is called with a validated argument.
Call(p, ch, reversible) ==
  /\ pc[p] = "idle"
  /\ Goto(p, "acquire")
  /\ op' = [op EXCEPT ![p] = [change |-> ch, reversible |-> reversible]]
  /\ UNCHANGED <<shared, cand, written, mem>>

set_clock_mode(p)   == \E m \in ClockMode : Call(p, [NoChange EXCEPT !.clock = m], FALSE)
set_calendar(p)     == \E c \in Calendar : Call(p, [NoChange EXCEPT !.calendar = c], FALSE)
set_show_seconds(p) == \E s \in Seconds : Call(p, [NoChange EXCEPT !.seconds = s], FALSE)
set_location(p) ==
  \E l \in Location \cup {NoLocation} : Call(p, [NoChange EXCEPT !.location = l], FALSE)
begin_location_update(p) ==
  \E l \in Location \cup {NoLocation} : Call(p, [NoChange EXCEPT !.location = l], TRUE)

\* One invocation of system-settings-time: all its options in one edit, saved
\* under the lock, and reversible until the metadata of a location is written.
cli_invocation(p) == \E ch \in CliEdit : Call(p, ch, ch.location # Same)

begin_update(p) ==
  /\ pc[p] = "acquire"
  /\ lock = NoProc
  /\ lock' = p
  /\ Goto(p, "load")
  /\ UNCHANGED <<file, native, op, cand, written, mem>>

\* Mutant: the wait for the lock has no deadline.
begin_update_waits(p) ==
  /\ pc[p] = "acquire" /\ lock = p
  /\ UNCHANGED vars

\* Busy until the deadline, or an I/O error on the lock file.
begin_update_fails(p) ==
  /\ pc[p] = "acquire"
  /\ Goto(p, "idle")
  /\ op' = [op EXCEPT ![p] = NoOp]
  /\ UNCHANGED <<shared, cand, written, mem>>

\* Mutant: the candidate starts from the policy in memory.
load_candidate_from_memory(p) ==
  /\ pc[p] = "load"
  /\ cand' = [cand EXCEPT ![p] = mem[p]]
  /\ Goto(p, "save")
  /\ UNCHANGED <<shared, op, mem, written>>

load_candidate(p) ==
  /\ pc[p] = "load"
  /\ cand' = [cand EXCEPT ![p] = platform_load]
  /\ Goto(p, "save")
  /\ UNCHANGED <<shared, op, mem, written>>

\* Mutant: the failed load returns with the lock held.
load_candidate_fails_leaking(p) ==
  /\ pc[p] = "load"
  /\ Goto(p, "idle")
  /\ op' = [op EXCEPT ![p] = NoOp]
  /\ UNCHANGED <<shared, cand, written, mem>>

load_candidate_fails(p) ==
  /\ pc[p] = "load"
  /\ EndOperation(p)
  /\ UNCHANGED <<file, native, mem>>

\* Mutant: the model's own clock mode is written along with the changed field.
Candidate_with_memory(p) ==
  [Assign(cand[p].policy, op[p].change) EXCEPT !.clock = mem[p].policy.clock]

Candidate(p) == Assign(cand[p].policy, op[p].change)

save(p) ==
  /\ pc[p] = "save"
  /\ file' = Candidate(p)
  /\ written' = [written EXCEPT ![p] = Candidate(p)]
  /\ Goto(p, "mirror")
  /\ UNCHANGED <<native, lock, op, cand, mem>>

\* Mutant: the model keeps the value it failed to save.
save_fails_published(p) ==
  /\ pc[p] = "save"
  /\ MayHaveWritten(Candidate(p))
  /\ EndOperation(p)
  /\ mem' = [mem EXCEPT ![p] = [policy |-> Candidate(p), found |-> TRUE]]
  /\ UNCHANGED native

save_fails(p) ==
  /\ pc[p] = "save"
  /\ MayHaveWritten(Candidate(p))
  /\ EndOperation(p)
  /\ UNCHANGED <<native, mem>>

mirror(p) ==
  /\ pc[p] = "mirror"
  /\ mirror_cinnamon_compatibility(Candidate(p))
  /\ Goto(p, "commit")
  /\ UNCHANGED <<file, lock, op, cand, written, mem>>

Publish(p) == mem' = [mem EXCEPT ![p] = [policy |-> Candidate(p), found |-> TRUE]]

\* A setter gives the lock back first, and then publishes what it saved.
release_update_lock(p) ==
  /\ pc[p] = "commit" /\ ~op[p].reversible
  /\ lock' = NoProc
  /\ Goto(p, "publish")
  /\ UNCHANGED <<file, native, op, cand, mem, written>>

publish(p) ==
  /\ pc[p] = "publish"
  /\ Publish(p)
  /\ Return(p)
  /\ UNCHANGED shared

\* A reversible update publishes with the lock still held.
open_location_update(p) ==
  /\ pc[p] = "commit" /\ op[p].reversible
  /\ Publish(p)
  /\ Goto(p, "open")
  /\ UNCHANGED <<shared, op, cand, written>>

finish_location_update(p) ==
  /\ pc[p] = "open"
  /\ EndOperation(p)
  /\ UNCHANGED <<file, native, mem>>

\* The previous policy is saved again, or, when there was none, the file is
\* removed.
Previous(p) == IF cand[p].found THEN cand[p].policy ELSE Absent

rollback_location_update(p) ==
  /\ pc[p] = "open"
  /\ file' = Previous(p)
  /\ Goto(p, IF cand[p].found THEN "undo_mirror" ELSE "undone")
  /\ UNCHANGED <<native, lock, op, cand, written, mem>>

rollback_mirror(p) ==
  /\ pc[p] = "undo_mirror"
  /\ mirror_cinnamon_compatibility(cand[p].policy)
  /\ Goto(p, "undone")
  /\ UNCHANGED <<file, lock, op, cand, written, mem>>

rollback_done(p) ==
  /\ pc[p] = "undone"
  /\ mem' = [mem EXCEPT ![p] = cand[p]]
  /\ EndOperation(p)
  /\ UNCHANGED <<file, native>>

\* A failed rollback gives up the lock; the caller reloads.
rollback_fails(p) ==
  /\ pc[p] = "open"
  /\ MayHaveWritten(Previous(p))
  /\ EndOperation(p)
  /\ UNCHANGED <<native, mem>>

\* The process exits or dies (ss_date_time_model_clear, or flock's own rule):
\* the lock goes with it, what it wrote stays.
Stop(p) ==
  /\ pc[p] # "down"
  /\ lock' = IF lock = p THEN NoProc ELSE lock
  /\ Goto(p, "down")
  /\ op' = [op EXCEPT ![p] = NoOp]
  /\ cand' = [cand EXCEPT ![p] = Unloaded]
  /\ mem' = [mem EXCEPT ![p] = Unloaded]
  /\ written' = [written EXCEPT ![p] = Nothing]
  /\ UNCHANGED <<file, native>>

\* The user changes the desktop's own clock settings.
DesktopChange ==
  /\ native' \in Native
  /\ UNCHANGED <<file, lock, pc, op, cand, written, mem>>

-----------------------------------------------------------------------------
Begin(p) ==
  \/ set_clock_mode(p)
  \/ set_calendar(p)
  \/ set_show_seconds(p)
  \/ set_location(p)
  \/ begin_location_update(p)
  \/ cli_invocation(p)

\* The steps an operation takes once it has been called.
Continue(p) ==
  \/ begin_update(p)
  \/ begin_update_fails(p)
  \/ load_candidate(p)
  \/ load_candidate_fails(p)
  \/ save(p)
  \/ save_fails(p)
  \/ mirror(p)
  \/ release_update_lock(p)
  \/ publish(p)
  \/ open_location_update(p)
  \/ finish_location_update(p)
  \/ rollback_location_update(p)
  \/ rollback_mirror(p)
  \/ rollback_done(p)
  \/ rollback_fails(p)

Next ==
  \/ \E p \in Proc :
       \/ Start(p)
       \/ reload(p)
       \/ \E m \in ClockMode : normalize_unpersisted_clock_mode(p, m)
       \/ Begin(p)
       \/ Continue(p)
       \/ Stop(p)
  \/ DesktopChange

Spec == Init /\ [][Next]_vars

\* An operation runs to its end on its own thread without waiting for events.
Fairness == \A p \in Proc : WF_vars(Continue(p))

FairSpec == Spec /\ Fairness

-----------------------------------------------------------------------------
(* What must hold.                                                         *)

\* The lock and the operations agree: at most one process is between taking
\* and releasing presentation.lock, and a lock that is held has a live owner
\* inside an operation, so no path leaks it.
LockOwnership ==
  /\ \A p \in Proc : pc[p] \in Holding => lock = p
  /\ lock # NoProc => pc[lock] \in Holding

\* A candidate is never stale when it is saved: until the save the file is
\* the one that was loaded, and until the end of the operation it is the
\* candidate itself (or, after a rollback, the previous policy).
CandidateFresh ==
  \A p \in Proc :
    /\ pc[p] = "save" =>
         IF cand[p].found THEN file = cand[p].policy
                          ELSE file \notin Policy /\ \E n \in Native : cand[p].policy = Seed(n)
    /\ pc[p] \in {"mirror", "commit", "open"} => file = Candidate(p)
    /\ pc[p] \in {"undo_mirror", "undone"} => file = Previous(p)

\* Only an edit of the location is reversible.
ReversibleIsLocation ==
  \A p \in Proc : op[p].reversible => op[p].change.location # Same

\* What an operation has saved is its candidate.
WrittenIsCandidate ==
  \A p \in Proc : pc[p] \in {"mirror", "commit", "publish"} => written[p] = Candidate(p)

OpenIsReversible == \A p \in Proc : pc[p] = "open" => op[p].reversible

IInv ==
  /\ TypeOK
  /\ LockOwnership
  /\ CandidateFresh
  /\ ReversibleIsLocation
  /\ OpenIsReversible
  /\ WrittenIsCandidate

\* The view of the store a reader gets.
View == IF file \in Policy THEN file ELSE Absent

\* Persist before publish (save_candidate): whenever the persisted policy a
\* live model publishes changes, the new value is what the file holds at that
\* moment, or, as a setter gives up the lock before it publishes, what it wrote
\* itself; a write that failed is never visible in memory.
PublishedIsDurable ==
  [][\A p \in Proc :
       mem'[p] # mem[p] /\ mem'[p].found => mem'[p].policy \in {file', written[p]}]_vars

\* The refinement mapping: the register's value is what a reader of the file
\* gets; a tentative change is open from the save of a reversible update until
\* it is finished, rolled back, given up or cut short by the process's death.
OpenUpdate == {"mirror", "commit", "open"}

UndoValue ==
  IF lock # NoProc /\ pc[lock] \in OpenUpdate /\ op[lock].reversible
    THEN Previous(lock) ELSE Nothing

\* An operation asks for its edit until its save has been tried.
Asking == {"acquire", "load", "save"}

Asked(p) == IF pc[p] \in Asking THEN op[p].change ELSE Nothing

Wants == [p \in Proc |-> Asked(p)]

Register == INSTANCE PolicyRegister WITH value <- View, wants <- Wants, undo <- UndoValue

\* Two processes editing different fields merge their changes instead of
\* replacing one another's, each operation makes its own edit at most once, and
\* a rollback restores exactly what it found (begin_candidate, save_candidate,
\* rollback_location_update): the shared file behaves as the abstract register.
RefinesRegister == Register!RegisterSpec

\* Every operation returns, whatever fails and however often the lock is
\* taken by others: waiting for it is bounded (ss_linux_advisory_lock_acquire)
\* and every path out of a held lock releases it.
OperationEnds ==
  \A p \in Proc : (pc[p] \notin {"down", "idle"}) ~> (pc[p] \in {"down", "idle"})
=============================================================================
