------------------------ MODULE DateTimeModelProofs -------------------------
(***************************************************************************)
(* Proofs about DateTimeModel, for any number of processes and any sets of *)
(* modes, calendars and locations: lock ownership, freshness of the        *)
(* candidate, persist-before-publish, and that the shared file implements  *)
(* the register of PolicyRegister.  The last section proves the properties *)
(* of NativeClockSync, for any number of windows and edits.                *)
(***************************************************************************)
EXTENDS NativeClockSync, TLAPS

(***************************************************************************)
(* The operators on policies stay inside their types.                      *)
(***************************************************************************)

\* The defaults seeded from the desktop form a policy (load_cinnamon_defaults).
LEMMA SeedType ==
  ASSUME NEW n \in Native
  PROVE  Seed(n) \in Policy
BY ModeAssumption, CalendarAssumption DEF Seed, Policy, Native

\* A setter's assignment keeps a policy a policy (assign_clock_mode, ...).
LEMMA AssignType ==
  ASSUME NEW pol \in Policy, NEW ch \in Change
  PROVE  Assign(pol, ch) \in Policy
BY DEF Assign, Chosen, Policy, Change

\* A model that has not loaded yet (ss_date_time_model_init before its load)
\* has a well-typed, unpersisted policy.
LEMMA UnloadedType == Unloaded \in Loaded
<1>1. [clock |-> "standard-24", seconds |-> "hidden"] \in Native
  BY SecondsAssumption DEF Native, StandardMode
<1>2. QED BY <1>1, SeedType DEF Unloaded, Loaded

\* The idle operation is an operation.
LEMMA NoOpType == NoOp \in Operation
BY DEF NoOp, NoChange, Operation, Change

\* What a load returns (platform_load): a policy, and the file when found.
LEMMA LoadType ==
  ASSUME TypeOK
  PROVE  /\ platform_load \in Loaded
         /\ platform_load.found => file = platform_load.policy
         /\ ~platform_load.found =>
              file \notin Policy /\ \E n \in Native : platform_load.policy = Seed(n)
BY SeedType DEF TypeOK, platform_load, Loaded

\* A candidate built by begin_candidate and a setter is a policy.
LEMMA CandidateType ==
  ASSUME TypeOK, NEW p \in Proc
  PROVE  Candidate(p) \in Policy /\ Previous(p) \in Policy \cup {Absent}
BY AssignType DEF TypeOK, Candidate, Previous, Loaded, Operation

\* Every entry point is a call with a typed change, reversible only for the
\* location (ss_date_time_model_set_*, begin_location_update).
LEMMA BeginIsCall ==
  ASSUME NEW p \in Proc, Begin(p)
  PROVE  \E ch \in Change, r \in BOOLEAN : Call(p, ch, r) /\ (r => ch.location # Same)
<1>1. CASE set_clock_mode(p)
  <2>1. PICK m \in ClockMode : Call(p, [NoChange EXCEPT !.clock = m], FALSE)
    BY <1>1 DEF set_clock_mode
  <2>2. [NoChange EXCEPT !.clock = m] \in Change
    BY DEF NoChange, Change
  <2>3. QED BY <2>1, <2>2
<1>2. CASE set_calendar(p)
  <2>1. PICK c \in Calendar : Call(p, [NoChange EXCEPT !.calendar = c], FALSE)
    BY <1>2 DEF set_calendar
  <2>2. [NoChange EXCEPT !.calendar = c] \in Change
    BY DEF NoChange, Change
  <2>3. QED BY <2>1, <2>2
<1>3. CASE set_show_seconds(p)
  <2>1. PICK s \in Seconds : Call(p, [NoChange EXCEPT !.seconds = s], FALSE)
    BY <1>3 DEF set_show_seconds
  <2>2. [NoChange EXCEPT !.seconds = s] \in Change
    BY DEF NoChange, Change
  <2>3. QED BY <2>1, <2>2
<1>4. CASE set_location(p) \/ begin_location_update(p)
  <2>1. PICK l \in Location \cup {NoLocation}, r \in BOOLEAN :
          Call(p, [NoChange EXCEPT !.location = l], r)
    BY <1>4 DEF set_location, begin_location_update
  <2>2. /\ [NoChange EXCEPT !.location = l] \in Change
        /\ [NoChange EXCEPT !.location = l].location # Same
    BY SameAssumption DEF NoChange, Change
  <2>3. QED BY <2>1, <2>2
<1>5. CASE cli_invocation(p)
  BY <1>5, CliEditAssumption DEF cli_invocation
<1>6. QED BY <1>1, <1>2, <1>3, <1>4, <1>5 DEF Begin

-----------------------------------------------------------------------------
(***************************************************************************)
(* Type correctness.                                                       *)
(***************************************************************************)
\* Every initial state is well typed.
LEMMA TypeInit == Init => TypeOK
BY UnloadedType, NoOpType DEF Init, TypeOK, Step

\* Every step of every operation keeps the state well typed.
LEMMA TypeStep == TypeOK /\ [Next]_vars => TypeOK'
<1> SUFFICES ASSUME TypeOK, [Next]_vars PROVE TypeOK'
  OBVIOUS
<1> USE UnloadedType, NoOpType, LoadType
<1>1. ASSUME NEW p \in Proc, Start(p) \/ reload(p) PROVE TypeOK'
  BY <1>1 DEF TypeOK, Start, reload, Goto, shared, Step
<1>2. ASSUME NEW p \in Proc, NEW m \in ClockMode, normalize_unpersisted_clock_mode(p, m)
      PROVE TypeOK'
  <2>1. [mem[p] EXCEPT !.policy.clock = m] \in Loaded
    BY DEF TypeOK, Loaded, Policy
  <2>2. mem' = [mem EXCEPT ![p] = [mem[p] EXCEPT !.policy.clock = m]]
    BY <1>2 DEF TypeOK, normalize_unpersisted_clock_mode
  <2>3. QED BY <1>2, <2>1, <2>2 DEF TypeOK, normalize_unpersisted_clock_mode, shared
<1>3. ASSUME NEW p \in Proc, Begin(p) PROVE TypeOK'
  <2>1. PICK ch \in Change, r \in BOOLEAN : Call(p, ch, r)
    BY <1>3, BeginIsCall
  <2>2. QED BY <2>1 DEF TypeOK, Call, Goto, shared, Step, Operation
<1>4. ASSUME NEW p \in Proc, Continue(p) PROVE TypeOK'
  <2> Candidate(p) \in Policy /\ Previous(p) \in Policy \cup {Absent}
    BY CandidateType
  <2>1. CASE begin_update(p) \/ begin_update_fails(p)
    BY <2>1 DEF TypeOK, begin_update, begin_update_fails, Goto, shared, Step
  <2>2. CASE load_candidate(p) \/ load_candidate_fails(p)
    BY <2>2 DEF TypeOK, load_candidate, load_candidate_fails, EndOperation, Return, Goto, shared, Step
  <2>3. CASE save(p) \/ save_fails(p)
    BY <2>3 DEF TypeOK, save, save_fails, MayHaveWritten, EndOperation, Return, Goto, Step
  <2>4. CASE mirror(p) \/ rollback_mirror(p)
    <3>1. /\ native' \in Native
          /\ UNCHANGED <<file, lock, op, cand, mem, written>>
          /\ \E to \in Step : pc' = [pc EXCEPT ![p] = to]
      BY <2>4 DEF mirror, rollback_mirror, mirror_cinnamon_compatibility, Goto, Step
    <3>2. QED BY <3>1 DEF TypeOK
  <2>5. CASE publish(p) \/ open_location_update(p)
    <3>1. [policy |-> Candidate(p), found |-> TRUE] \in Loaded
      BY DEF Loaded
    <3>2. mem' \in [Proc -> Loaded]
      BY <2>5, <3>1 DEF TypeOK, publish, open_location_update, Publish
    <3>3. CASE publish(p)
      BY <3>2, <3>3 DEF TypeOK, publish, Return, Goto, shared, Step
    <3>4. CASE open_location_update(p)
      BY <3>2, <3>4 DEF TypeOK, open_location_update, Goto, shared, Step
    <3>5. QED BY <2>5, <3>3, <3>4
  <2>6. CASE finish_location_update(p) \/ rollback_done(p) \/ rollback_fails(p)
    BY <2>6 DEF TypeOK, finish_location_update, rollback_done, rollback_fails,
                MayHaveWritten, EndOperation, Return, Goto, Step
  <2>7. CASE rollback_location_update(p)
    BY <2>7 DEF TypeOK, rollback_location_update, Goto, Step
  <2>8. CASE release_update_lock(p)
    BY <2>8 DEF TypeOK, release_update_lock, Goto, Step
  <2>9. QED BY <1>4, <2>1, <2>2, <2>3, <2>4, <2>5, <2>6, <2>7, <2>8 DEF Continue
<1>5. ASSUME NEW p \in Proc, Stop(p) PROVE TypeOK'
  BY <1>5 DEF TypeOK, Stop, Goto, Step
<1>6. CASE DesktopChange
  BY <1>6 DEF TypeOK, DesktopChange
<1>7. CASE UNCHANGED vars
  BY <1>7 DEF TypeOK, vars
<1>8. QED BY <1>1, <1>2, <1>3, <1>4, <1>5, <1>6, <1>7 DEF Next

\* Every variable of every process keeps its type, whatever the interleaving.
THEOREM TypeCorrect == Spec => []TypeOK
BY TypeInit, TypeStep, PTL DEF Spec

-----------------------------------------------------------------------------
(***************************************************************************)
(* The inductive invariant.  Ownership of the lock is what keeps the file  *)
(* still between a process's load and the end of its operation; freshness  *)
(* of its candidate follows, because nobody writes the file without the    *)
(* lock.                                                                   *)
(***************************************************************************)
\* The inductive invariant holds before any process has started.
LEMMA InvInit == Init => IInv
BY TypeInit DEF Init, IInv, LockOwnership, CandidateFresh, ReversibleIsLocation,
                OpenIsReversible, WrittenIsCandidate, Holding, NoOp, Step

\* Every step keeps the inductive invariant: one case per group of actions
\* (entry, lock, load, save, mirror and release, rollback, environment).
LEMMA InvStep == IInv /\ [Next]_vars => IInv'
<1> SUFFICES ASSUME IInv, [Next]_vars PROVE IInv'
  OBVIOUS
<1> TypeOK /\ TypeOK'
  BY TypeStep DEF IInv
<1> USE NoProcAssumption DEF IInv, LockOwnership, CandidateFresh, ReversibleIsLocation,
                             OpenIsReversible, WrittenIsCandidate, Holding, Candidate,
                             Previous
<1>1. ASSUME NEW p \in Proc, Start(p) \/ reload(p) PROVE IInv'
  BY <1>1 DEF TypeOK, Start, reload, Goto, shared
<1>2. ASSUME NEW p \in Proc, NEW m \in ClockMode, normalize_unpersisted_clock_mode(p, m)
      PROVE IInv'
  BY <1>2 DEF TypeOK, normalize_unpersisted_clock_mode, shared
<1>3. ASSUME NEW p \in Proc, Begin(p) PROVE IInv'
  <2>1. PICK ch \in Change, r \in BOOLEAN :
          Call(p, ch, r) /\ (r => ch.location # Same)
    BY <1>3, BeginIsCall
  <2>2. QED BY <2>1 DEF TypeOK, Call, Goto, shared
<1>4. ASSUME NEW p \in Proc, Continue(p) PROVE IInv'
  <2>1. CASE begin_update(p) \/ begin_update_fails(p)
    BY <2>1 DEF TypeOK, begin_update, begin_update_fails, Goto, shared, NoOp
  <2>2. CASE load_candidate(p)
    BY <2>2, LoadType DEF TypeOK, load_candidate, Goto, shared
  <2>3. CASE load_candidate_fails(p) \/ save_fails(p)
    BY <2>3 DEF TypeOK, load_candidate_fails, save_fails, EndOperation, Return, Goto, NoOp
  <2>4. CASE save(p)
    BY <2>4 DEF TypeOK, save, Goto
  <2>5. CASE mirror(p) \/ rollback_mirror(p)
    <3>1. /\ UNCHANGED <<file, lock, op, cand, written>>
          /\ \/ pc[p] = "mirror" /\ pc' = [pc EXCEPT ![p] = "commit"]
             \/ pc[p] = "undo_mirror" /\ pc' = [pc EXCEPT ![p] = "undone"]
      BY <2>5, Zenon DEF mirror, rollback_mirror, Goto
    <3>2. QED BY <3>1 DEF TypeOK
  <2>6. CASE publish(p) \/ open_location_update(p)
    BY <2>6 DEF TypeOK, publish, open_location_update, Return, Goto, shared, NoOp
  <2>7. CASE finish_location_update(p) \/ rollback_done(p) \/ rollback_fails(p)
    BY <2>7 DEF TypeOK, finish_location_update, rollback_done, rollback_fails,
                EndOperation, Return, Goto, NoOp
  <2>8. CASE rollback_location_update(p)
    BY <2>8 DEF TypeOK, rollback_location_update, Goto
  <2>9. CASE release_update_lock(p)
    BY <2>9 DEF TypeOK, release_update_lock, Goto
  <2>10. QED BY <1>4, <2>1, <2>2, <2>3, <2>4, <2>5, <2>6, <2>7, <2>8, <2>9 DEF Continue
<1>5. ASSUME NEW p \in Proc, Stop(p) PROVE IInv'
  BY <1>5 DEF TypeOK, Stop, Goto, NoOp
<1>6. CASE DesktopChange
  BY <1>6 DEF TypeOK, DesktopChange
<1>7. CASE UNCHANGED vars
  BY <1>7 DEF TypeOK, vars
<1>8. QED BY <1>1, <1>2, <1>3, <1>4, <1>5, <1>6, <1>7 DEF Next

\* The inductive invariant holds in every reachable state.
THEOREM Invariance == Spec => []IInv
BY InvInit, InvStep, PTL DEF Spec

\* At most one process is inside an update, and no path leaks the lock.
THEOREM LockSafety == Spec => []LockOwnership
<1>1. IInv => LockOwnership
  BY DEF IInv
<1>2. QED BY <1>1, Invariance, PTL

\* No process ever saves a candidate built on a policy that has changed since.
THEOREM CandidateSafety == Spec => []CandidateFresh
<1>1. IInv => CandidateFresh
  BY DEF IInv
<1>2. QED BY <1>1, Invariance, PTL

-----------------------------------------------------------------------------
(***************************************************************************)
(* Persist before publish.                                                 *)
(***************************************************************************)
\* One step of save_candidate, reload or rollback satisfies PublishedIsDurable.
LEMMA PublishStep ==
  ASSUME IInv, Next, NEW q \in Proc, mem'[q] # mem[q], mem'[q].found
  PROVE  mem'[q].policy \in {file', written[q]}
<1> TypeOK
  BY DEF IInv
<1>1. ASSUME NEW p \in Proc, Start(p) \/ reload(p) PROVE mem'[q].policy \in {file', written[q]}
  BY <1>1, LoadType DEF TypeOK, Start, reload, shared
<1>2. ASSUME NEW p \in Proc, NEW m \in ClockMode, normalize_unpersisted_clock_mode(p, m)
      PROVE mem'[q].policy \in {file', written[q]}
  BY <1>2 DEF TypeOK, normalize_unpersisted_clock_mode, Loaded, Policy
<1>3. ASSUME NEW p \in Proc, Begin(p) PROVE mem'[q].policy \in {file', written[q]}
  BY <1>3, BeginIsCall DEF Call
<1>4. ASSUME NEW p \in Proc, Continue(p) PROVE mem'[q].policy \in {file', written[q]}
  <2>1. CASE publish(p) \/ open_location_update(p)
    <3>1. /\ pc[p] \in {"commit", "publish"}
          /\ mem' = [mem EXCEPT ![p] = [policy |-> Candidate(p), found |-> TRUE]]
      BY <2>1, Zenon DEF publish, open_location_update, Publish
    <3>2. QED BY <3>1 DEF TypeOK, IInv, WrittenIsCandidate
  <2>2. CASE rollback_done(p)
    BY <2>2 DEF TypeOK, rollback_done, IInv, CandidateFresh, Previous
  <2>3. CASE /\ ~publish(p)
             /\ ~open_location_update(p)
             /\ ~rollback_done(p)
    <3>1. mem' = mem
      BY <1>4, <2>3, Zenon DEF Continue, begin_update, begin_update_fails, load_candidate,
           load_candidate_fails, save, save_fails, mirror, finish_location_update,
           rollback_location_update, rollback_mirror, rollback_fails,
           release_update_lock
    <3>2. QED BY <3>1
  <2>4. QED BY <2>1, <2>2, <2>3
<1>5. ASSUME NEW p \in Proc, Stop(p) PROVE mem'[q].policy \in {file', written[q]}
  BY <1>5 DEF TypeOK, Stop, Unloaded
<1>6. CASE DesktopChange
  BY <1>6 DEF DesktopChange
<1>7. QED BY <1>1, <1>2, <1>3, <1>4, <1>5, <1>6 DEF Next

\* A model only starts to show a persisted policy that is on disk or that it
\* has itself put there; in particular a failed write stays invisible.
THEOREM PersistBeforePublish == Spec => PublishedIsDurable
<1>1. IInv /\ [Next]_vars =>
        [\A p \in Proc :
           mem'[p] # mem[p] /\ mem'[p].found => mem'[p].policy \in {file', written[p]}]_vars
  BY PublishStep
<1>2. QED BY <1>1, Invariance, PTL DEF Spec, PublishedIsDurable

-----------------------------------------------------------------------------
(***************************************************************************)
(* The refinement: every step of the processes is an edit of the register, *)
(* the opening, keeping or undoing of a tentative change, or invisible.    *)
(***************************************************************************)

\* The register's operators are those of TemporalPolicy.
LEMMA RegisterOperators ==
  /\ Register!Policy = Policy
  /\ Register!Change = Change
  /\ Register!Native = Native
  /\ \A n : Register!Seed(n) = Seed(n)
  /\ \A pol, ch : Register!Assign(pol, ch) = Assign(pol, ch)
BY Zenon DEF Register!Policy, Policy, Register!Change, Change, Register!Native, Native,
       Register!StandardMode, StandardMode, Register!Seed, Seed, Register!Assign, Assign,
       Register!Chosen, Chosen

\* The reader's view of a valid file is the file.
LEMMA ViewType ==
  /\ View \in Policy \cup {Absent}
  /\ file \in Policy => View = file
  /\ file \notin Policy => View = Absent
BY DEF View

\* While nobody is past the save of a reversible update, nothing is tentative.
LEMMA UndoNothing ==
  ASSUME lock = NoProc \/ ~op[lock].reversible \/ pc[lock] \notin OpenUpdate
  PROVE  UndoValue = Nothing
BY DEF UndoValue

\* A rollback puts back the view a reader had before the update
\* (ss_date_time_model_rollback_location_update).
LEMMA PreviousIsView ==
  ASSUME IInv, NEW p \in Proc, pc[p] = "save"
  PROVE  Previous(p) = View
BY DEF IInv, CandidateFresh, Previous, View, TypeOK, Loaded

\* A save under the lock edits the register's present value.
LEMMA SaveIsEdit ==
  ASSUME IInv, NEW p \in Proc, pc[p] = "save", file' = Candidate(p)
  PROVE  \E base \in Register!Bases : View' = Register!Assign(base, op[p].change)
<1> DEFINE base == cand[p].policy
<1>1. View' = Assign(base, op[p].change)
  <2>1. Candidate(p) \in Policy
    BY CandidateType DEF IInv
  <2>2. QED BY <2>1 DEF View, Candidate
<1>2. base \in Register!Bases
  <2>1. CASE cand[p].found
    BY <2>1, RegisterOperators DEF IInv, CandidateFresh, Register!Bases, View, TypeOK, Loaded
  <2>2. CASE ~cand[p].found
    BY <2>2, RegisterOperators, AbsentAssumption
       DEF IInv, CandidateFresh, Register!Bases, View
  <2>3. QED BY <2>1, <2>2
<1>3. QED BY <1>1, <1>2, RegisterOperators

\* What the processes ask for is unchanged when each asks for what it did.
LEMMA WantsKept ==
  ASSUME \A q \in Proc : Asked(q)' = Asked(q)
  PROVE  Wants' = Wants
BY DEF Wants

\* A step of one process changes what that process asks for and nothing else.
LEMMA WantsSet ==
  ASSUME NEW p \in Proc, NEW w, Asked(p)' = w,
         \A q \in Proc \ {p} : Asked(q)' = Asked(q)
  PROVE  Wants' = [Wants EXCEPT ![p] = w]
BY DEF Wants

\* An operation that has not tried its save asks for its edit.
LEMMA WantsAsking ==
  ASSUME TypeOK, NEW p \in Proc, pc[p] \in Asking
  PROVE  Wants[p] = op[p].change /\ Wants[p] \in Change /\ Wants[p] # Nothing
BY NothingAssumption DEF Wants, Asked, TypeOK, Operation

\* Once its save has been tried, or before it is called, it asks for nothing.
LEMMA WantsNothing ==
  ASSUME NEW p \in Proc, pc[p] \notin Asking
  PROVE  Wants[p] = Nothing /\ Asked(p) = Nothing
BY DEF Wants, Asked

\* An initial state of the store is an initial state of the register.
LEMMA RefinementInit == Init => Register!RegisterInit
<1> SUFFICES ASSUME Init PROVE Register!RegisterInit
  OBVIOUS
<1>1. UndoValue = Nothing
  BY UndoNothing DEF Init
<1>2. Wants = [p \in Proc |-> Nothing]
  BY DEF Init, Wants, Asked, Asking
<1>3. QED BY <1>1, <1>2, ViewType, RegisterOperators DEF Register!RegisterInit

\* Every step of the store is a step of the register or leaves it unchanged.
LEMMA RefinementStep ==
  ASSUME IInv, IInv', [Next]_vars
  PROVE  [Register!RegisterNext]_(Register!registerVars)
<1> DEFINE Edit == Register!RegisterNext
           Unseen == View' = View /\ UndoValue' = UndoValue
           Invisible == Unseen /\ Wants' = Wants
<1> SUFFICES Edit \/ Invisible
  BY DEF Register!registerVars
<1> TypeOK /\ TypeOK'
  BY DEF IInv
<1> USE NoProcAssumption, NothingAssumption
<1>1. ASSUME NEW p \in Proc, Start(p) \/ reload(p) PROVE Invisible
  <2>1. UNCHANGED <<file, lock, op, cand>> /\ (pc' = pc \/ pc' = [pc EXCEPT ![p] = "idle"])
        /\ pc[p] \in {"down", "idle"}
    BY <1>1 DEF Start, reload, Goto, shared
  <2>2. Unseen
    BY <2>1 DEF View, UndoValue, Previous, TypeOK, OpenUpdate
  <2>3. \A q \in Proc : Asked(q)' = Asked(q)
    BY <2>1 DEF Asked, Asking, TypeOK
  <2>4. QED BY <2>2, <2>3, WantsKept
<1>2. ASSUME NEW p \in Proc, NEW m \in ClockMode, normalize_unpersisted_clock_mode(p, m)
      PROVE Invisible
  BY <1>2, WantsKept
     DEF normalize_unpersisted_clock_mode, shared, View, UndoValue, Previous, Asked
<1>3. ASSUME NEW p \in Proc, Begin(p) PROVE Edit
  <2>1. PICK ch \in Change, r \in BOOLEAN : Call(p, ch, r)
    BY <1>3, BeginIsCall
  <2>2. Unseen
    BY <2>1 DEF Call, Goto, shared, View, UndoValue, Previous, TypeOK, OpenUpdate
  <2>3. /\ pc[p] \notin Asking /\ Asked(p)' = ch
        /\ \A q \in Proc \ {p} : Asked(q)' = Asked(q)
    BY <2>1 DEF Call, Goto, Asked, Asking, TypeOK
  <2>4. Register!Ask(p, ch)
    BY <2>2, <2>3, WantsNothing, WantsSet DEF Register!Ask
  <2>5. QED BY <2>4, RegisterOperators DEF Register!RegisterNext
<1>4. ASSUME NEW p \in Proc, begin_update(p) \/ load_candidate(p) PROVE Invisible
  <2>1. Unseen
    BY <1>4 DEF begin_update, load_candidate, Goto, shared, View, UndoValue, Previous,
                TypeOK, OpenUpdate, IInv, LockOwnership, Holding
  <2>2. \A q \in Proc : Asked(q)' = Asked(q)
    BY <1>4 DEF begin_update, load_candidate, Goto, shared, Asked, Asking, TypeOK
  <2>3. QED BY <2>1, <2>2, WantsKept
<1>5. ASSUME NEW p \in Proc, begin_update_fails(p) \/ load_candidate_fails(p) PROVE Edit
  <2>1. Unseen
    BY <1>5 DEF begin_update_fails, load_candidate_fails, EndOperation, Return, Goto, shared,
                View, UndoValue, Previous, TypeOK, OpenUpdate, IInv, LockOwnership, Holding
  <2>2. /\ pc[p] \in Asking /\ Asked(p)' = Nothing
        /\ \A q \in Proc \ {p} : Asked(q)' = Asked(q)
    BY <1>5 DEF begin_update_fails, load_candidate_fails, EndOperation, Return, Goto, shared,
                Asked, Asking, TypeOK
  <2>3. Register!GiveUp(p)
    BY <2>1, <2>2, WantsAsking, WantsSet DEF Register!GiveUp
  <2>4. QED BY <2>3 DEF Register!RegisterNext
<1>6. ASSUME NEW p \in Proc, save(p) PROVE Edit
  <2>1. /\ lock = p /\ lock' = p /\ op' = op /\ cand' = cand
        /\ pc[p] = "save" /\ pc'[p] = "mirror" /\ file' = Candidate(p)
    BY <1>6 DEF save, Goto, TypeOK, IInv, LockOwnership, Holding
  <2>2. UndoValue = Nothing
    BY <2>1, UndoNothing DEF OpenUpdate
  <2>3. /\ pc[p] \in Asking /\ Asked(p)' = Nothing
        /\ \A q \in Proc \ {p} : Asked(q)' = Asked(q)
    BY <1>6 DEF save, Goto, Asked, Asking, TypeOK
  <2>4. Register!Make(p)
    BY <2>1, <2>2, <2>3, SaveIsEdit, WantsAsking, WantsSet DEF Register!Make
  <2>5. op[p].reversible \in BOOLEAN
    BY DEF TypeOK, Operation
  <2>6. CASE op[p].reversible
    <3>1. UndoValue' = View
      BY <2>1, <2>6, PreviousIsView DEF UndoValue, OpenUpdate, Previous
    <3>2. Wants[p].location # Same
      BY <2>3, <2>6, WantsAsking DEF IInv, ReversibleIsLocation
    <3>3. Register!BeginTentative(p)
      BY <2>4, <3>1, <3>2 DEF Register!BeginTentative
    <3>4. QED BY <3>3 DEF Register!RegisterNext
  <2>7. CASE ~op[p].reversible
    <3>1. UndoValue' = UndoValue
      BY <2>1, <2>2, <2>7 DEF UndoValue
    <3>2. Register!Update(p)
      BY <2>4, <3>1 DEF Register!Update
    <3>3. QED BY <3>2 DEF Register!RegisterNext
  <2>8. QED BY <2>6, <2>7
<1>7. ASSUME NEW p \in Proc, save_fails(p) PROVE Edit
  <2>1. /\ lock = p /\ lock' = NoProc /\ pc[p] = "save"
        /\ file' = file \/ file' = Candidate(p)
    BY <1>7 DEF save_fails, MayHaveWritten, EndOperation, Return, TypeOK, IInv, LockOwnership, Holding
  <2>2. UndoValue = Nothing /\ UndoValue' = Nothing
    BY <2>1 DEF OpenUpdate, UndoValue
  <2>3. /\ pc[p] \in Asking /\ Asked(p)' = Nothing
        /\ \A q \in Proc \ {p} : Asked(q)' = Asked(q)
    BY <1>7 DEF save_fails, EndOperation, Return, Goto, Asked, Asking, TypeOK
  <2>4. CASE file' = file
    <3>1. Register!GiveUp(p)
      BY <2>2, <2>3, <2>4, WantsAsking, WantsSet DEF Register!GiveUp, View
    <3>2. QED BY <3>1 DEF Register!RegisterNext
  <2>5. CASE file' = Candidate(p)
    <3>1. Register!Make(p)
      BY <2>1, <2>2, <2>3, <2>5, SaveIsEdit, WantsAsking, WantsSet DEF Register!Make
    <3>2. Register!Update(p)
      BY <2>2, <3>1 DEF Register!Update
    <3>3. QED BY <3>2 DEF Register!RegisterNext
  <2>6. QED BY <2>1, <2>4, <2>5
<1>8. ASSUME NEW p \in Proc, mirror(p) \/ open_location_update(p) PROVE Invisible
  <2>1. /\ UNCHANGED <<file, lock, op, cand>> /\ lock = p
        /\ pc[p] \in OpenUpdate /\ pc'[p] \in OpenUpdate
    BY <1>8 DEF mirror, open_location_update, Goto, shared, OpenUpdate, TypeOK, IInv,
                LockOwnership, Holding
  <2>2. Unseen
    BY <2>1 DEF View, UndoValue, Previous
  <2>3. \A q \in Proc : Asked(q)' = Asked(q)
    BY <1>8 DEF mirror, open_location_update, Goto, shared, Asked, Asking, TypeOK
  <2>4. QED BY <2>2, <2>3, WantsKept
<1>9. ASSUME NEW p \in Proc, release_update_lock(p) \/ publish(p) PROVE Invisible
  <2>1. ASSUME release_update_lock(p) PROVE Unseen
    <3>1. file' = file /\ lock = p /\ lock' = NoProc /\ ~op[p].reversible
      BY <2>1 DEF release_update_lock, IInv, LockOwnership, Holding
    <3>2. QED BY <3>1 DEF View, UndoValue
  <2>2. ASSUME publish(p) PROVE Unseen
    <3>1. /\ file' = file /\ lock' = lock /\ lock # p
          /\ \A q \in Proc \ {p} : pc'[q] = pc[q] /\ op'[q] = op[q] /\ cand'[q] = cand[q]
      BY <2>2 DEF publish, Return, Goto, shared, TypeOK, IInv, LockOwnership, Holding
    <3>2. QED BY <3>1 DEF View, UndoValue, Previous, TypeOK
  <2>3. Unseen
    BY <1>9, <2>1, <2>2
  <2>4. \A q \in Proc : Asked(q)' = Asked(q)
    BY <1>9 DEF release_update_lock, publish, Return, Goto, shared, Asked, Asking, TypeOK
  <2>5. QED BY <2>3, <2>4, WantsKept
<1>10. ASSUME NEW p \in Proc, pc[p] = "open" PROVE op[p].reversible
  BY <1>10 DEF IInv, OpenIsReversible
<1>11. ASSUME NEW p \in Proc, pc[p] = "open"
       PROVE  lock = p /\ UndoValue = Previous(p) /\ UndoValue # Nothing
  <2>1. lock = p /\ p # NoProc
    BY <1>11 DEF IInv, LockOwnership, Holding
  <2>2. UndoValue = Previous(p)
    BY <1>10, <1>11, <2>1 DEF UndoValue, OpenUpdate
  <2>3. QED BY <2>1, <2>2, CandidateType
<1>12. ASSUME NEW p \in Proc, finish_location_update(p) PROVE Edit
  <2>1. pc[p] = "open" /\ file' = file /\ lock' = NoProc
    BY <1>12 DEF finish_location_update, EndOperation, Return
  <2>2. \A q \in Proc : Asked(q)' = Asked(q)
    BY <1>12 DEF finish_location_update, EndOperation, Return, Goto, Asked, Asking, TypeOK
  <2>3. Register!Keep
    BY <1>11, <2>1, <2>2, WantsKept DEF Register!Keep, View, UndoValue
  <2>4. QED BY <2>3 DEF Register!RegisterNext
<1>13. ASSUME NEW p \in Proc, rollback_location_update(p) \/ rollback_fails(p) PROVE Edit
  <2>1. /\ pc[p] = "open"
        /\ file' = file \/ file' = Previous(p)
        /\ lock' = NoProc \/ (lock' = lock /\ pc'[p] \in {"undo_mirror", "undone"})
    BY <1>13 DEF rollback_location_update, rollback_fails, MayHaveWritten, EndOperation, Return,
                 Goto, TypeOK
  <2>2. UndoValue' = Nothing
    BY <1>11, <2>1 DEF UndoValue, OpenUpdate
  <2>3. \A q \in Proc : Asked(q)' = Asked(q)
    BY <1>13 DEF rollback_location_update, rollback_fails, EndOperation, Return, Goto,
                 Asked, Asking, TypeOK
  <2>4. CASE file' = file
    <3>1. Register!Keep
      BY <1>11, <2>1, <2>2, <2>3, <2>4, WantsKept DEF Register!Keep, View
    <3>2. QED BY <3>1 DEF Register!RegisterNext
  <2>5. CASE file' = Previous(p)
    <3>1. View' = Previous(p)
      BY <2>5, CandidateType DEF View
    <3>2. Register!Undo
      BY <1>11, <2>1, <2>2, <2>3, <3>1, WantsKept DEF Register!Undo
    <3>3. QED BY <3>2 DEF Register!RegisterNext
  <2>6. QED BY <2>1, <2>4, <2>5
<1>14. ASSUME NEW p \in Proc, rollback_mirror(p) \/ rollback_done(p) PROVE Invisible
  <2>1. /\ file' = file /\ lock = p /\ pc[p] \notin OpenUpdate
        /\ lock' = NoProc \/ (lock' = lock /\ pc'[p] = "undone")
    BY <1>14 DEF rollback_mirror, rollback_done, EndOperation, Return, Goto, TypeOK, OpenUpdate,
                 IInv, LockOwnership, Holding
  <2>2. \A q \in Proc : Asked(q)' = Asked(q)
    BY <1>14 DEF rollback_mirror, rollback_done, EndOperation, Return, Goto, Asked, Asking, TypeOK
  <2>3. QED BY <2>1, <2>2, WantsKept DEF View, UndoValue, OpenUpdate
<1>15. ASSUME NEW p \in Proc, Stop(p) PROVE Edit \/ Invisible
  <2>1. file' = file /\ View' = View
    BY <1>15 DEF Stop, View
  <2>2. Asked(p)' = Nothing /\ \A q \in Proc \ {p} : Asked(q)' = Asked(q)
    BY <1>15 DEF Stop, Goto, Asked, Asking, TypeOK
  <2>3. CASE pc[p] \in Asking
    <3>1. UndoValue' = UndoValue
      BY <1>15, <2>3 DEF Stop, Goto, UndoValue, Previous, OpenUpdate, Asking, TypeOK
    <3>2. Register!GiveUp(p)
      BY <2>1, <2>2, <2>3, <3>1, WantsAsking, WantsSet DEF Register!GiveUp
    <3>3. QED BY <3>2 DEF Register!RegisterNext
  <2>4. CASE pc[p] \notin Asking
    <3>1. Wants' = Wants
      BY <2>2, <2>4, WantsNothing, WantsKept
    <3>2. CASE lock = p
      <4>1. UndoValue' = Nothing
        BY <1>15, <3>2 DEF Stop, UndoValue
      <4>2. Register!Keep \/ Invisible
        BY <2>1, <3>1, <4>1 DEF Register!Keep
      <4>3. QED BY <4>2 DEF Register!RegisterNext
    <3>3. CASE lock # p
      <4>1. lock' = lock /\ (lock # NoProc => /\ pc'[lock] = pc[lock] /\ op'[lock] = op[lock]
                                              /\ cand'[lock] = cand[lock])
        BY <1>15, <3>3 DEF Stop, Goto, TypeOK
      <4>2. QED BY <2>1, <3>1, <4>1 DEF UndoValue, Previous
    <3>4. QED BY <3>2, <3>3
  <2>5. QED BY <2>3, <2>4
<1>16. CASE DesktopChange
  BY <1>16, WantsKept DEF DesktopChange, View, UndoValue, Previous, Asked
<1>17. CASE UNCHANGED vars
  BY <1>17, WantsKept DEF vars, View, UndoValue, Previous, Asked
<1>18. QED
  BY <1>1, <1>2, <1>3, <1>4, <1>5, <1>6, <1>7, <1>8, <1>9, <1>12, <1>13, <1>14, <1>15,
     <1>16, <1>17 DEF Next, Continue

\* The shared file, edited by any number of processes that may fail or die at
\* any step, behaves as one register to which each operation applies its own
\* edit at most once: no update of another field is ever lost, and a rollback
\* leaves no trace.
THEOREM Refinement == Spec => RefinesRegister
<1>1. IInv /\ IInv' /\ [Next]_vars => [Register!RegisterNext]_(Register!registerVars)
  BY RefinementStep
<1>2. QED BY <1>1, RefinementInit, Invariance, PTL DEF Spec, RefinesRegister,
                                                       Register!RegisterSpec

-----------------------------------------------------------------------------
(***************************************************************************)
(* Windows and the native keys (NativeClockSync).  The inductive invariant *)
(* says where each piece of news is: a window that neither waits for an    *)
(* event of the file nor has missed one shows it, and a key that disagrees *)
(* with the policy is in a signal's queue or in the hands of an operation. *)
(***************************************************************************)
\* A window that is up has begun its opening, and one that operates listens to
\* the file (ss_linux_date_time_panel_new).
OperatingListens ==
  \A p \in Window :
    /\ stage[p] = "closed" <=> pc[p] = "down"
    /\ pc[p] \notin {"down", "idle"} => Connected(p)

\* A window with no event waiting shows the file, unless it missed it or could not
\* read it; what it is about to publish is the file in any case.
UnobservedIsCurrent ==
  \A p \in Window :
    pc[p] # "down" /\ p \notin observed =>
      /\ p \notin unread /\ file \in Policy => mem[p].policy = file
      /\ pc[p] = "publish" => file = Candidate(p)

\* An operation that a native key started to set the clock mode found a mode in
\* memory that follows the desktop (ShouldTrack, migrate_legacy_native_clock).
TrackedModeFollows ==
  \A p \in tracking :
    /\ pc[p] \notin {"down", "idle"}
    /\ pc[p] \in Asking /\ op[p].change.clock # Same =>
         ss_native_clock_mode_tracks_desktop(mem[p].policy.clock)

\* The policy has a native equivalent that the key does not show.
Disagrees(key) ==
  /\ key = "clock" => file.clock \in StandardMode
  /\ file[key] # native[key]

\* A save that is yet to be mirrored, a reversible update that is yet to be given
\* up or kept, an operation that will set the key's value, or a signal of the key.
Pending(key) ==
  \/ \E p \in Proc : \/ pc[p] \in {"mirror", "open", "undo_mirror", "undone"}
                     \/ pc[p] \in Asking /\ op[p].change[key] = native[key]
  \/ \E p \in Window : key \in signals[p]

DisagreementIsPending ==
  ~excused /\ file \in Policy => \A key \in Key : Disagrees(key) => Pending(key)

SyncIInv ==
  /\ IInv
  /\ stage \in [Window -> Stage]
  /\ signals \in [Window -> SUBSET Key]
  /\ observed \subseteq Window /\ tracking \subseteq Window /\ unread \subseteq Window
  /\ OperatingListens
  /\ UnobservedIsCurrent
  /\ TrackedModeFollows
  /\ DisagreementIsPending

\* What a step of an operation does to the file, the keys and the process itself:
\* it fails, comes nearer to its save, saves, mirrors, releases, publishes, or
\* takes back what it saved (Continue).
LEMMA OperationEffect ==
  ASSUME IInv, NEW p \in Proc, Continue(p)
  PROVE  /\ \A q \in Proc \ {p} : pc'[q] = pc[q] /\ op'[q] = op[q] /\ cand'[q] = cand[q]
                                   /\ mem'[q] = mem[q]
         /\ pc[p] \notin {"down", "idle"} /\ pc'[p] # "down"
         /\ \/ pc'[p] = "idle" /\ pc[p] # "publish" /\ native' = native
            \/ /\ pc[p] \in {"acquire", "load"} /\ pc'[p] \in Asking
               /\ UNCHANGED <<file, native, op, mem>>
            \/ /\ pc[p] = "save" /\ pc'[p] = "mirror" /\ file' = Candidate(p)
               /\ UNCHANGED <<native, op, cand, mem>>
            \/ /\ pc[p] = "mirror" /\ pc'[p] = "commit"
               /\ UNCHANGED <<file, op, cand, mem>>
            \/ /\ pc[p] = "commit" /\ pc'[p] = "publish"
               /\ UNCHANGED <<file, native, op, cand, mem>>
            \/ /\ pc[p] = "publish" /\ pc'[p] = "idle" /\ mem'[p].policy = Candidate(p)
               /\ UNCHANGED <<file, native>>
            \/ /\ pc[p] = "commit" /\ pc'[p] = "open" /\ mem'[p].policy = Candidate(p)
               /\ UNCHANGED <<file, native, op, cand>>
            \/ /\ pc[p] = "open" /\ pc'[p] \in {"undo_mirror", "undone"}
               /\ UNCHANGED <<native, op, cand, mem>>
            \/ /\ pc[p] = "undo_mirror" /\ pc'[p] = "undone"
               /\ UNCHANGED <<file, op, cand, mem>>
<1> TypeOK
  BY DEF IInv
<1> USE DEF TypeOK, Goto, Asking, shared
<1>1. CASE begin_update(p) \/ load_candidate(p)
  BY <1>1 DEF begin_update, load_candidate
<1>2. CASE begin_update_fails(p) \/ load_candidate_fails(p) \/ save_fails(p)
           \/ finish_location_update(p) \/ rollback_done(p) \/ rollback_fails(p)
  BY <1>2 DEF begin_update_fails, load_candidate_fails, save_fails, finish_location_update,
              rollback_done, rollback_fails, EndOperation, Return
<1>3. CASE save(p)
  BY <1>3 DEF save
<1>4. CASE mirror(p) \/ rollback_mirror(p)
  <2>1. /\ UNCHANGED <<file, lock, op, cand, written, mem>>
        /\ \/ pc[p] = "mirror" /\ pc' = [pc EXCEPT ![p] = "commit"]
           \/ pc[p] = "undo_mirror" /\ pc' = [pc EXCEPT ![p] = "undone"]
    BY <1>4, Zenon DEF mirror, rollback_mirror
  <2>2. QED BY <2>1
<1>5. CASE release_update_lock(p)
  BY <1>5 DEF release_update_lock
<1>6. CASE publish(p) \/ open_location_update(p)
  <2>1. /\ mem' = [mem EXCEPT ![p] = [policy |-> Candidate(p), found |-> TRUE]]
        /\ UNCHANGED <<file, native>>
        /\ \/ /\ pc[p] = "publish" /\ pc' = [pc EXCEPT ![p] = "idle"]
              /\ op' = [op EXCEPT ![p] = NoOp] /\ cand' = [cand EXCEPT ![p] = Unloaded]
           \/ /\ pc[p] = "commit" /\ pc' = [pc EXCEPT ![p] = "open"]
              /\ UNCHANGED <<op, cand>>
    BY <1>6, Zenon DEF publish, open_location_update, Publish, Return
  <2>2. mem'[p].policy = Candidate(p)
    BY <2>1
  <2>3. QED BY <2>1, <2>2
<1>7. CASE rollback_location_update(p)
  <2>1. /\ pc[p] = "open"
        /\ \/ pc' = [pc EXCEPT ![p] = "undo_mirror"]
           \/ pc' = [pc EXCEPT ![p] = "undone"]
        /\ UNCHANGED <<native, op, cand, mem>>
    BY <1>7 DEF rollback_location_update
  <2>2. QED BY <2>1
<1>8. QED BY <1>1, <1>2, <1>3, <1>4, <1>5, <1>6, <1>7 DEF Continue

\* A native key in the terms of a policy, and the edit that follows it.
LEMMA KeyTypes ==
  ASSUME TypeOK, NEW key \in Key
  PROVE  /\ [NoChange EXCEPT ![key] = native[key]] \in Change
         /\ [NoChange EXCEPT ![key] = native[key]][key] = native[key]
         /\ [NoChange EXCEPT ![key] = native[key]].clock # Same => key = "clock"
<1>1. native.clock \in ClockMode /\ native.seconds \in Seconds
  BY ModeAssumption DEF TypeOK, Native
<1>2. CASE key = "clock"
  BY <1>1, <1>2 DEF NoChange, Change
<1>3. CASE key = "seconds"
  BY <1>1, <1>3 DEF NoChange, Change
<1>4. QED BY <1>2, <1>3 DEF Key

\* Policy and desktop match exactly when no key disagrees.
LEMMA MatchIsAgreement ==
  CompatibilityMatches(file, native) <=> \A key \in Key : ~Disagrees(key)
BY DEF CompatibilityMatches, Disagrees, Key

\* What a user asks for is a call of the model (on_clock_changed, on_seconds_changed,
\* the options of the tool).
LEMMA UserBegins ==
  ASSUME NEW p \in Proc, UserSets(p)
  PROVE  Begin(p) /\ (p \in Window => Connected(p))
<1>1. CASE p \in Window
  BY <1>1 DEF UserSets, WindowSets, Begin, set_clock_mode, Connected
<1>2. CASE p \notin Window
  BY <1>2, Zenon DEF UserSets, Begin
<1>3. QED BY <1>1, <1>2

\* A window that opens only listens to more, or sets a legacy clock mode to what
\* the desktop's key stands for (migrate_legacy_native_clock).
LEMMA OpeningEffect ==
  ASSUME NEW p \in Window, ContinueOpening(p)
  PROVE  /\ \E to \in Stage \ {"closed"} : stage' = [stage EXCEPT ![p] = to]
         /\ stage[p] # "closed"
         /\ UNCHANGED <<signals, observed, unread, edits, excused>>
         /\ \/ UNCHANGED <<vars, tracking>>
            \/ /\ stage[p] = "connected" /\ stage' = [stage EXCEPT ![p] = "open"]
               /\ mem[p].policy.clock = LegacyMode /\ tracking' = tracking \cup {p}
               /\ Call(p, [NoChange EXCEPT !["clock"] = native["clock"]], FALSE)
<1>1. CASE ss_policy_file_observer_new(p) \/ ss_cinnamon_interface_settings_new(p)
  BY <1>1
  DEF ss_policy_file_observer_new, ss_cinnamon_interface_settings_new, OpenFurther, Stage, events
<1>2. CASE migrate_legacy_native_clock(p)
  BY <1>2 DEF migrate_legacy_native_clock, OpenFurther, Stage, events
<1>3. QED BY <1>1, <1>2 DEF ContinueOpening

\* What the windows and the tool do to the policy are steps of DateTimeModel.
LEMMA SyncStepIsModelStep == TypeOK /\ [SyncNext]_syncVars => [Next]_vars
<1> SUFFICES ASSUME TypeOK, [SyncNext]_syncVars PROVE [Next]_vars
  OBVIOUS
<1>1. ASSUME NEW p \in Proc, Open(p) \/ UserSets(p) \/ OperationStep(p) PROVE Next
  <2>1. Start(p) \/ Begin(p) \/ Continue(p)
    BY <1>1, UserBegins, Zenon DEF Open, OperationStep
  <2>2. QED BY <2>1, Zenon DEF Next
<1>2. ASSUME NEW p \in Window, policy_file_changed(p) PROVE Next
  BY <1>2, WindowAssumption DEF policy_file_changed, Next
<1>3. ASSUME NEW p \in Window, NEW key \in Key,
             UNCHANGED vars \/ Call(p, [NoChange EXCEPT ![key] = native[key]], FALSE)
      PROVE  [Next]_vars
  <2>1. CASE UNCHANGED vars
    BY <2>1
  <2>2. CASE Call(p, [NoChange EXCEPT ![key] = native[key]], FALSE)
    <3>1. CASE key = "clock"
      <4>1. native.clock \in ClockMode
        BY ModeAssumption DEF TypeOK, Native
      <4>2. set_clock_mode(p)
        BY <2>2, <3>1, <4>1 DEF set_clock_mode, NoChange
      <4>3. QED BY <4>2, WindowAssumption DEF Next, Begin
    <3>2. CASE key = "seconds"
      <4>1. native.seconds \in Seconds
        BY DEF TypeOK, Native
      <4>2. set_show_seconds(p)
        BY <2>2, <3>2, <4>1 DEF set_show_seconds, NoChange
      <4>3. QED BY <4>2, WindowAssumption DEF Next, Begin
    <3>3. QED BY <3>1, <3>2 DEF Key
  <2>3. QED BY <1>3, <2>1, <2>2
<1>4. CASE OtherProgramSets
  BY <1>4 DEF OtherProgramSets, Next
<1>5. CASE UNCHANGED syncVars
  BY <1>5 DEF syncVars
<1>6. ASSUME NEW p \in Window, ContinueOpening(p) \/ policy_file_changed_fails(p)
      PROVE  [Next]_vars
  <2>1. UNCHANGED vars \/ Call(p, [NoChange EXCEPT !["clock"] = native["clock"]], FALSE)
    <3>1. CASE ContinueOpening(p)
      <4>1. \/ UNCHANGED <<vars, tracking>>
            \/ Call(p, [NoChange EXCEPT !["clock"] = native["clock"]], FALSE)
        BY <3>1, OpeningEffect, Zenon
      <4>2. QED BY <4>1
    <3>2. CASE policy_file_changed_fails(p)
      BY <3>2 DEF policy_file_changed_fails
    <3>3. QED BY <1>6, <3>1, <3>2
  <2>2. "clock" \in Key
    BY DEF Key
  <2>3. QED BY <1>3, <2>1, <2>2, Zenon
<1>7. ASSUME NEW p \in Window, NEW key \in Key, on_cinnamon_interface_changed(p, key)
      PROVE  [Next]_vars
  BY <1>3, <1>7, Zenon DEF on_cinnamon_interface_changed
<1>8. QED BY <1>1, <1>2, <1>4, <1>5, <1>6, <1>7 DEF SyncNext, HandleEvent

\* Calls change neither the files nor what a model publishes.
LEMMA CallEffect ==
  ASSUME TypeOK, NEW p \in Proc, NEW ch, NEW r, Call(p, ch, r)
  PROVE  /\ pc[p] = "idle" /\ pc'[p] = "acquire" /\ op'[p].change = ch
         /\ UNCHANGED <<file, native, cand, mem>>
         /\ \A q \in Proc \ {p} : pc'[q] = pc[q] /\ op'[q] = op[q]
BY DEF TypeOK, Call, Goto, shared

\* What a notification adds to the queues: a new native value to the signals of
\* every connected window but one that is deaf, a new file to the events of every
\* window that observes it.
LEMMA NotifyEffect ==
  ASSUME signals \in [Window -> SUBSET Key], observed \subseteq Window, NEW deaf, Notify(deaf)
  PROVE  /\ signals' \in [Window -> SUBSET Key] /\ observed' \subseteq Window
         /\ \A q \in Window : signals[q] \subseteq signals'[q]
         /\ \A q \in Window, key \in Key :
              Connected(q) /\ q \notin deaf /\ native'[key] # native[key] => key \in signals'[q]
         /\ file' = file => observed' = observed
         /\ file' # file => \A q \in Window : Observing(q) => q \in observed'
BY DEF Notify

\* The queues and histories stay well typed (g_settings "changed", the observer's
\* callback).
LEMMA QueueTypes ==
  ASSUME SyncIInv, [SyncNext]_syncVars
  PROVE  /\ stage' \in [Window -> Stage] /\ signals' \in [Window -> SUBSET Key]
         /\ observed' \subseteq Window /\ tracking' \subseteq Window /\ unread' \subseteq Window
<1> USE DEF events
<1> /\ stage \in [Window -> Stage] /\ signals \in [Window -> SUBSET Key]
    /\ observed \subseteq Window /\ tracking \subseteq Window /\ unread \subseteq Window
  BY DEF SyncIInv
<1>1. ASSUME NEW p \in Proc, Open(p)
      PROVE  /\ stage' \in [Window -> Stage]
             /\ UNCHANGED <<signals, observed, tracking, unread>>
  BY <1>1 DEF Open, Stage
<1>2. ASSUME NEW p \in Proc, UserSets(p)
      PROVE  UNCHANGED <<stage, signals, observed, tracking, unread>>
  BY <1>2, Zenon DEF UserSets
<1>3. ASSUME NEW p \in Proc, OperationStep(p)
      PROVE  /\ signals' \in [Window -> SUBSET Key] /\ observed' \subseteq Window
             /\ tracking' \subseteq tracking /\ unread' \subseteq Window /\ stage' = stage
  <2>1. signals' \in [Window -> SUBSET Key] /\ observed' \subseteq Window
    BY <1>3, NotifyEffect DEF OperationStep
  <2>2. Missing \subseteq Window
    BY DEF Missing
  <2>3. QED BY <1>3, <2>1, <2>2 DEF OperationStep
<1>4. ASSUME NEW p \in Window, ContinueOpening(p)
      PROVE  /\ stage' \in [Window -> Stage] /\ tracking' \subseteq tracking \cup {p}
             /\ UNCHANGED <<signals, observed, unread>>
  <2>1. PICK to \in Stage : stage' = [stage EXCEPT ![p] = to]
    BY <1>4, OpeningEffect
  <2>2. UNCHANGED tracking \/ tracking' = tracking \cup {p}
    BY <1>4, OpeningEffect, Zenon
  <2>3. QED BY <1>4, <2>1, <2>2, OpeningEffect
<1>5. ASSUME NEW p \in Window, policy_file_changed(p) \/ policy_file_changed_fails(p)
      PROVE  /\ UNCHANGED <<stage, signals, tracking>>
             /\ observed' \subseteq observed /\ unread' \subseteq unread \cup {p}
  BY <1>5 DEF policy_file_changed, policy_file_changed_fails
<1>6. ASSUME NEW p \in Window, NEW key \in Key, on_cinnamon_interface_changed(p, key)
      PROVE  /\ signals' = [signals EXCEPT ![p] = @ \ {key}]
             /\ tracking' \subseteq tracking \cup {p}
             /\ stage' = stage /\ observed' = observed /\ unread' = unread
  BY <1>6, Zenon DEF on_cinnamon_interface_changed
<1>7. CASE OtherProgramSets
  BY <1>7, NotifyEffect DEF OtherProgramSets
<1>8. CASE UNCHANGED syncVars
  BY <1>8 DEF syncVars
<1>9. QED BY <1>1, <1>2, <1>3, <1>4, <1>5, <1>6, <1>7, <1>8 DEF SyncNext, HandleEvent

\* Every operation of a window is begun by one that listens to the file
\* (ss_linux_date_time_panel_new).
LEMMA ListeningStep ==
  ASSUME SyncIInv, [SyncNext]_syncVars
  PROVE  OperatingListens'
<1> USE WindowAssumption DEF events
<1> TypeOK /\ OperatingListens /\ stage \in [Window -> Stage]
  BY DEF SyncIInv, IInv
<1>1. ASSUME UNCHANGED <<stage, pc>> PROVE OperatingListens'
  BY <1>1 DEF OperatingListens, Connected
<1>2. ASSUME NEW p \in Proc, Open(p) PROVE OperatingListens'
  <2>1. pc[p] = "down" /\ pc' = [pc EXCEPT ![p] = "idle"]
    BY <1>2 DEF Open, Start, Goto
  <2>2. stage' = [q \in Window |-> IF q = p THEN "loaded" ELSE stage[q]]
    BY <1>2 DEF Open
  <2>3. QED BY <2>1, <2>2 DEF OperatingListens, Connected, TypeOK
<1>3. ASSUME NEW p \in Proc, UserSets(p) PROVE OperatingListens'
  <2>1. Begin(p) /\ stage' = stage /\ (p \in Window => Connected(p))
    BY <1>3, UserBegins, Zenon DEF UserSets
  <2>2. PICK ch \in Change, r \in BOOLEAN : Call(p, ch, r)
    BY <2>1, BeginIsCall
  <2>3. QED BY <2>1, <2>2, CallEffect DEF OperatingListens, Connected
<1>4. ASSUME NEW p \in Proc, OperationStep(p) PROVE OperatingListens'
  <2>1. Continue(p) /\ stage' = stage
    BY <1>4 DEF OperationStep
  <2>2. /\ \A q \in Proc \ {p} : pc'[q] = pc[q]
        /\ pc[p] \notin {"down", "idle"} /\ pc'[p] # "down"
    BY <2>1, OperationEffect DEF SyncIInv
  <2>3. QED BY <2>1, <2>2 DEF OperatingListens, Connected
<1>5. ASSUME NEW p \in Window, ContinueOpening(p) PROVE OperatingListens'
  <2>1. PICK to \in Stage \ {"closed"} : stage' = [stage EXCEPT ![p] = to]
    BY <1>5, OpeningEffect
  <2>2. stage[p] # "closed"
    BY <1>5, OpeningEffect
  <2>3. CASE UNCHANGED vars
    <3>1. Connected(p) => Connected(p)'
      BY <1>5, <2>1, <2>3
      DEF ContinueOpening, ss_policy_file_observer_new, ss_cinnamon_interface_settings_new,
          migrate_legacy_native_clock, OpenFurther, Connected
    <3>2. QED BY <2>1, <2>2, <2>3, <3>1 DEF vars, OperatingListens, Connected
  <2>4. CASE /\ stage' = [stage EXCEPT ![p] = "open"]
             /\ Call(p, [NoChange EXCEPT !["clock"] = native["clock"]], FALSE)
    <3>1. /\ pc'[p] = "acquire" /\ \A q \in Proc \ {p} : pc'[q] = pc[q]
      BY <2>4, CallEffect
    <3>2. QED BY <2>4, <3>1 DEF OperatingListens, Connected
  <2>5. QED BY <1>5, <2>3, <2>4, OpeningEffect, Zenon
<1>6. ASSUME NEW p \in Window, policy_file_changed(p) \/ policy_file_changed_fails(p)
      PROVE  OperatingListens'
  BY <1>1, <1>6 DEF policy_file_changed, policy_file_changed_fails, reload, vars
<1>7. ASSUME NEW p \in Window, NEW key \in Key, on_cinnamon_interface_changed(p, key)
      PROVE  OperatingListens'
  <2>1. /\ stage' = stage /\ stage[p] = "open"
        /\ UNCHANGED vars \/ Call(p, [NoChange EXCEPT ![key] = native[key]], FALSE)
    BY <1>7, Zenon DEF on_cinnamon_interface_changed
  <2>2. CASE UNCHANGED vars
    BY <1>1, <2>1, <2>2 DEF vars
  <2>3. CASE Call(p, [NoChange EXCEPT ![key] = native[key]], FALSE)
    <3>1. /\ pc'[p] = "acquire" /\ \A q \in Proc \ {p} : pc'[q] = pc[q]
      BY <2>3, CallEffect
    <3>2. QED BY <2>1, <3>1 DEF OperatingListens, Connected
  <2>4. QED BY <2>1, <2>2, <2>3
<1>8. CASE OtherProgramSets
  BY <1>1, <1>8 DEF OtherProgramSets, DesktopChange
<1>9. CASE UNCHANGED syncVars
  BY <1>1, <1>9 DEF syncVars, vars
<1>10. QED BY <1>2, <1>3, <1>4, <1>5, <1>6, <1>7, <1>8, <1>9 DEF SyncNext, HandleEvent

\* Windows stay current: a model changes only to what the file holds, and a file
\* that changes is announced to every window (publish, policy_file_changed).
LEMMA UnobservedStep ==
  ASSUME SyncIInv, [SyncNext]_syncVars
  PROVE  UnobservedIsCurrent'
<1> USE WindowAssumption DEF events
<1> TypeOK /\ UnobservedIsCurrent /\ observed \subseteq Window
  BY DEF SyncIInv, IInv
<1>1. ASSUME NEW p \in Proc, Open(p) PROVE UnobservedIsCurrent'
  <2>1. /\ pc[p] = "down" /\ pc'[p] = "idle" /\ mem'[p] = platform_load
        /\ UNCHANGED <<file, op, cand, observed, unread>>
        /\ \A q \in Proc \ {p} : pc'[q] = pc[q] /\ mem'[q] = mem[q]
    BY <1>1 DEF Open, Start, Goto, shared, TypeOK
  <2>2. QED BY <2>1 DEF UnobservedIsCurrent, platform_load, Candidate
<1>2. ASSUME NEW p \in Proc, NEW ch, NEW r, Call(p, ch, r),
             observed' = observed, unread' = unread
      PROVE  UnobservedIsCurrent'
  <2>1. /\ pc[p] = "idle" /\ pc'[p] = "acquire"
        /\ UNCHANGED <<file, cand, mem, observed>>
        /\ \A q \in Proc \ {p} : pc'[q] = pc[q] /\ op'[q] = op[q]
    BY <1>2, CallEffect
  <2>2. QED BY <1>2, <2>1 DEF UnobservedIsCurrent, Candidate
<1>3. ASSUME NEW p \in Proc, UserSets(p) PROVE UnobservedIsCurrent'
  <2>1. Begin(p) /\ observed' = observed /\ unread' = unread
    BY <1>3, UserBegins, Zenon DEF UserSets
  <2>2. QED BY <1>2, <2>1, BeginIsCall
<1>4. ASSUME NEW p \in Proc, OperationStep(p) PROVE UnobservedIsCurrent'
  <2>1. Continue(p)
    BY <1>4 DEF OperationStep
  <2>2. /\ file' = file => observed' = observed
        /\ file' # file => \A q \in Window : Observing(q) => q \in observed'
        /\ unread' = IF pc[p] = "publish" THEN unread \ {p} ELSE unread \cup Missing
    BY <1>4, NotifyEffect DEF OperationStep, SyncIInv
  <2>3. SUFFICES ASSUME NEW q \in Window, pc'[q] # "down", q \notin observed'
                 PROVE  /\ q \notin unread' /\ file' \in Policy => mem'[q].policy = file'
                        /\ pc'[q] = "publish" => file' = Candidate(q)'
    BY DEF UnobservedIsCurrent
  <2>4. pc[q] # "down"
    BY <2>1, <2>3, OperationEffect DEF SyncIInv
  <2>8. CASE file' # file
    <3>1. ~Observing(q)
      BY <2>2, <2>3, <2>8
    <3>2. stage[q] = "loaded" /\ pc[q] = "idle"
      BY <2>4, <3>1 DEF SyncIInv, OperatingListens, Stage, Observing, Connected, IInv, TypeOK, Step
    <3>3. q # p /\ pc'[q] = "idle"
      BY <2>1, <3>2, OperationEffect DEF SyncIInv
    <3>4. pc[p] # "publish"
      BY <2>1, <2>8, OperationEffect DEF SyncIInv
    <3>5. q \in unread'
      BY <2>2, <2>8, <3>2, <3>4 DEF Missing
    <3>6. QED BY <3>3, <3>5
  <2>5. CASE file' = file /\ q # p
    <3>1. q \notin observed /\ (q \notin unread' => q \notin unread)
      BY <2>2, <2>3, <2>5 DEF Missing
    <3>2. /\ q \notin unread /\ file \in Policy => mem[q].policy = file
          /\ pc[q] = "publish" => file = Candidate(q)
      BY <2>4, <3>1 DEF UnobservedIsCurrent
    <3>3. QED BY <2>1, <2>5, <3>1, <3>2, OperationEffect DEF Candidate, SyncIInv
  <2>6. CASE file' = file /\ q = p
    <3>0. /\ p \notin observed
          /\ pc[p] # "publish" /\ p \notin unread' => p \notin unread
          /\ p \notin unread /\ file \in Policy => mem[p].policy = file
          /\ pc[p] = "publish" => file = Candidate(p)
      BY <2>2, <2>3, <2>4, <2>6 DEF UnobservedIsCurrent
    <3>1. CASE pc'[p] = "publish"
      <4>1. pc[p] = "commit" /\ UNCHANGED <<op, cand, mem>>
        BY <2>1, <3>1, OperationEffect DEF SyncIInv, Asking
      <4>2. file = Candidate(p)
        BY <4>1 DEF SyncIInv, IInv, CandidateFresh
      <4>3. QED BY <2>6, <3>0, <4>1, <4>2 DEF Candidate
    <3>2. CASE publish(p) \/ open_location_update(p)
      <4>1. /\ pc[p] = "publish" \/ pc[p] = "commit"
            /\ mem' = [mem EXCEPT ![p] = [policy |-> Candidate(p), found |-> TRUE]]
        BY <3>2, Zenon DEF publish, open_location_update, Publish
      <4>2. file = Candidate(p)
        BY <3>0, <4>1 DEF SyncIInv, IInv, CandidateFresh
      <4>3. mem'[p].policy = file
        BY <4>1, <4>2 DEF TypeOK
      <4>4. pc'[p] # "publish"
        BY <3>2 DEF publish, open_location_update, Return, Goto, TypeOK
      <4>5. QED BY <2>6, <4>3, <4>4
    <3>3. CASE rollback_done(p)
      <4>1. pc[p] = "undone" /\ mem'[p] = cand[p] /\ pc'[p] = "idle"
        BY <3>3 DEF rollback_done, EndOperation, Return, Goto, TypeOK
      <4>2. file = Previous(p)
        BY <4>1 DEF SyncIInv, IInv, CandidateFresh
      <4>3. file \in Policy => mem'[p].policy = file
        BY <4>1, <4>2, AbsentAssumption DEF Previous
      <4>4. QED BY <2>6, <4>1, <4>3
    <3>4. CASE /\ ~publish(p) /\ ~open_location_update(p) /\ ~rollback_done(p)
               /\ pc'[p] # "publish"
      <4>1. mem' = mem
        BY <2>1, <3>4, Zenon DEF Continue, begin_update, begin_update_fails, load_candidate,
             load_candidate_fails, save, save_fails, mirror, finish_location_update,
             rollback_location_update, rollback_mirror, rollback_fails,
             release_update_lock
      <4>2. pc[p] # "publish"
        BY <2>1, <3>4, Zenon DEF Continue, begin_update, begin_update_fails, load_candidate,
             load_candidate_fails, save, save_fails, mirror, finish_location_update,
             rollback_location_update, rollback_mirror, rollback_fails,
             release_update_lock
      <4>3. QED BY <2>6, <3>0, <3>4, <4>1, <4>2
    <3>5. QED BY <3>1, <3>2, <3>3, <3>4
  <2>7. QED BY <2>5, <2>6, <2>8
<1>5. ASSUME NEW p \in Window, policy_file_changed(p) PROVE UnobservedIsCurrent'
  <2>1. /\ pc[p] = "idle" /\ mem'[p] = platform_load
        /\ UNCHANGED <<file, pc, op, cand>>
        /\ observed' = observed \ {p} /\ unread' = unread \ {p}
        /\ \A q \in Proc \ {p} : mem'[q] = mem[q]
    BY <1>5 DEF policy_file_changed, reload, shared, TypeOK
  <2>2. QED BY <2>1 DEF UnobservedIsCurrent, platform_load, Candidate
<1>6. ASSUME NEW p \in Window, policy_file_changed_fails(p) PROVE UnobservedIsCurrent'
  <2>1. /\ pc[p] = "idle" /\ UNCHANGED <<file, pc, op, cand, mem>>
        /\ observed' = observed \ {p} /\ unread' = unread \cup {p}
    BY <1>6 DEF policy_file_changed_fails, vars
  <2>2. QED BY <2>1 DEF UnobservedIsCurrent, Candidate
<1>7. ASSUME NEW p \in Window, NEW key \in Key,
             UNCHANGED vars \/ Call(p, [NoChange EXCEPT ![key] = native[key]], FALSE),
             observed' = observed, unread' = unread
      PROVE  UnobservedIsCurrent'
  <2>1. CASE UNCHANGED vars
    BY <1>7, <2>1 DEF vars, UnobservedIsCurrent, Candidate
  <2>2. QED BY <1>2, <1>7, <2>1
<1>8. ASSUME NEW p \in Window, NEW key \in Key, on_cinnamon_interface_changed(p, key)
      PROVE  UnobservedIsCurrent'
  BY <1>7, <1>8, Zenon DEF on_cinnamon_interface_changed
<1>9. ASSUME NEW p \in Window, ContinueOpening(p) PROVE UnobservedIsCurrent'
  <2>1. "clock" \in Key
    BY DEF Key
  <2>2. QED BY <1>7, <1>9, <2>1, OpeningEffect, Zenon
<1>10. CASE OtherProgramSets
  <2>1. UNCHANGED <<file, pc, op, cand, mem, unread>>
    BY <1>10 DEF OtherProgramSets, DesktopChange
  <2>2. observed' = observed
    BY <1>10, <2>1, NotifyEffect DEF OtherProgramSets, SyncIInv
  <2>3. QED BY <2>1, <2>2 DEF UnobservedIsCurrent, Candidate
<1>11. CASE UNCHANGED syncVars
  BY <1>11 DEF syncVars, vars, UnobservedIsCurrent, Candidate
<1>12. QED
  BY <1>1, <1>3, <1>4, <1>5, <1>6, <1>8, <1>9, <1>10, <1>11 DEF SyncNext, HandleEvent

\* An operation a native key started keeps the model it judged by until its save
\* (on_cinnamon_interface_changed, begin_candidate).
LEMMA TrackedStep ==
  ASSUME SyncIInv, [SyncNext]_syncVars
  PROVE  TrackedModeFollows'
<1> USE WindowAssumption DEF events
<1> TypeOK /\ TrackedModeFollows /\ tracking \subseteq Window
  BY DEF SyncIInv, IInv
<1>1. ASSUME NEW p \in Proc, pc[p] \in {"down", "idle"}, tracking' = tracking,
             \A q \in Proc \ {p} : pc'[q] = pc[q] /\ op'[q] = op[q] /\ mem'[q] = mem[q]
      PROVE  TrackedModeFollows'
  BY <1>1 DEF TrackedModeFollows
<1>2. ASSUME NEW p \in Proc, Open(p) PROVE TrackedModeFollows'
  <2>1. /\ pc[p] = "down" /\ tracking' = tracking
        /\ \A q \in Proc \ {p} : pc'[q] = pc[q] /\ op'[q] = op[q] /\ mem'[q] = mem[q]
    BY <1>2 DEF Open, Start, Goto, shared, TypeOK
  <2>2. QED BY <1>1, <2>1
<1>3. ASSUME NEW p \in Proc, UserSets(p) PROVE TrackedModeFollows'
  <2>1. Begin(p) /\ tracking' = tracking
    BY <1>3, UserBegins, Zenon DEF UserSets
  <2>2. PICK ch \in Change, r \in BOOLEAN : Call(p, ch, r)
    BY <2>1, BeginIsCall
  <2>3. QED BY <1>1, <2>1, <2>2, CallEffect
<1>4. ASSUME NEW p \in Proc, OperationStep(p) PROVE TrackedModeFollows'
  <2>1. Continue(p) /\ tracking' = IF pc'[p] = "idle" THEN tracking \ {p} ELSE tracking
    BY <1>4 DEF OperationStep
  <2>2. SUFFICES ASSUME NEW q \in tracking'
                 PROVE  /\ pc'[q] \notin {"down", "idle"}
                        /\ pc'[q] \in Asking /\ op'[q].change.clock # Same
                             => ss_native_clock_mode_tracks_desktop(mem'[q].policy.clock)
    BY DEF TrackedModeFollows
  <2>3. q \in tracking /\ (q = p => pc'[p] # "idle")
    BY <2>1
  <2>4. CASE q # p
    BY <2>1, <2>3, <2>4, OperationEffect DEF TrackedModeFollows, SyncIInv
  <2>5. CASE q = p
    <3>1. pc'[p] \in Asking => pc[p] \in Asking /\ op' = op /\ mem' = mem
      BY <2>1, <2>3, <2>5, OperationEffect DEF SyncIInv, Asking
    <3>2. pc'[p] # "down"
      BY <2>1, OperationEffect DEF SyncIInv
    <3>3. QED BY <2>3, <2>5, <3>1, <3>2 DEF TrackedModeFollows
  <2>6. QED BY <2>4, <2>5
<1>5. ASSUME NEW p \in Window, policy_file_changed(p) PROVE TrackedModeFollows'
  <2>1. /\ pc[p] = "idle" /\ tracking' = tracking /\ UNCHANGED <<pc, op>>
        /\ \A q \in Proc \ {p} : mem'[q] = mem[q]
    BY <1>5 DEF policy_file_changed, reload, shared, TypeOK
  <2>2. QED BY <1>1, <2>1
<1>6. ASSUME UNCHANGED <<vars, tracking>> PROVE TrackedModeFollows'
  BY <1>6 DEF vars, TrackedModeFollows
<1>7. ASSUME NEW p \in Window, NEW key \in Key, tracking' = tracking \cup {p},
             Call(p, [NoChange EXCEPT ![key] = native[key]], FALSE),
             key = "clock" => ss_native_clock_mode_tracks_desktop(mem[p].policy.clock)
      PROVE  TrackedModeFollows'
  <2>1. /\ pc[p] = "idle" /\ pc'[p] = "acquire" /\ mem' = mem
        /\ op'[p].change = [NoChange EXCEPT ![key] = native[key]]
        /\ \A q \in Proc \ {p} : pc'[q] = pc[q] /\ op'[q] = op[q]
    BY <1>7, CallEffect
  <2>2. op'[p].change.clock # Same => ss_native_clock_mode_tracks_desktop(mem'[p].policy.clock)
    BY <1>7, <2>1, KeyTypes
  <2>3. QED BY <1>7, <2>1, <2>2 DEF TrackedModeFollows
<1>8. ASSUME NEW p \in Window, NEW key \in Key, on_cinnamon_interface_changed(p, key)
      PROVE  TrackedModeFollows'
  <2>1. \/ UNCHANGED <<vars, tracking>>
        \/ /\ ShouldTrack(p, key) /\ tracking' = tracking \cup {p}
           /\ Call(p, [NoChange EXCEPT ![key] = native[key]], FALSE)
    BY <1>8, Zenon DEF on_cinnamon_interface_changed
  <2>2. QED BY <1>6, <1>7, <2>1, Zenon DEF ShouldTrack
<1>9. ASSUME NEW p \in Window, ContinueOpening(p) PROVE TrackedModeFollows'
  <2>1. mem[p].policy.clock = LegacyMode =>
          ss_native_clock_mode_tracks_desktop(mem[p].policy.clock)
    BY DEF ss_native_clock_mode_tracks_desktop
  <2>2. "clock" \in Key
    BY DEF Key
  <2>3. QED BY <1>6, <1>7, <1>9, <2>1, <2>2, OpeningEffect, Zenon
<1>10. CASE OtherProgramSets
  BY <1>10 DEF OtherProgramSets, DesktopChange, TrackedModeFollows
<1>11. CASE UNCHANGED syncVars
  BY <1>6, <1>11 DEF syncVars
<1>12. ASSUME NEW p \in Window, policy_file_changed_fails(p) PROVE TrackedModeFollows'
  BY <1>6, <1>12 DEF policy_file_changed_fails
<1>13. QED
  BY <1>2, <1>3, <1>4, <1>5, <1>8, <1>9, <1>10, <1>11, <1>12 DEF SyncNext, HandleEvent

\* News of a disagreement is never dropped: a window that takes a signal sets the
\* key's value or finds nothing to do, and an operation ends in a mirror that
\* matches or in a failure that excuses it.
LEMMA PendingStep ==
  ASSUME SyncIInv, [SyncNext]_syncVars
  PROVE  DisagreementIsPending'
<1> USE WindowAssumption DEF events
<1> TypeOK /\ DisagreementIsPending
  BY DEF SyncIInv, IInv
<1> SUFFICES ASSUME ~excused', file' \in Policy, NEW key \in Key, Disagrees(key)'
             PROVE  Pending(key)'
  BY DEF DisagreementIsPending
<1>1. ASSUME UNCHANGED <<file, native>>, ~excused
      PROVE  Pending(key)
  BY <1>1 DEF DisagreementIsPending, Disagrees
<1>2. ASSUME NEW p \in Proc, Pending(key), native' = native,
             pc[p] \in {"down", "idle", "commit", "publish"},
             \A q \in Proc \ {p} : pc'[q] = pc[q] /\ op'[q] = op[q],
             \A q \in Window : signals[q] \subseteq signals'[q]
      PROVE  Pending(key)'
  BY <1>2 DEF Pending, Asking
<1>3. ASSUME NEW p \in Proc, Open(p) PROVE Pending(key)'
  <2>1. /\ pc[p] = "down" /\ UNCHANGED <<file, native, signals, excused>>
        /\ \A q \in Proc \ {p} : pc'[q] = pc[q] /\ op'[q] = op[q]
    BY <1>3 DEF Open, Start, Goto, shared, TypeOK
  <2>2. QED BY <1>1, <1>2, <2>1
<1>4. ASSUME NEW p \in Proc, UserSets(p) PROVE Pending(key)'
  <2>1. Begin(p) /\ UNCHANGED <<signals, excused>>
    BY <1>4, UserBegins, Zenon DEF UserSets
  <2>2. PICK ch \in Change, r \in BOOLEAN : Call(p, ch, r)
    BY <2>1, BeginIsCall
  <2>3. QED BY <1>1, <1>2, <2>1, <2>2, CallEffect
<1>5. ASSUME NEW p \in Proc, OperationStep(p) PROVE Pending(key)'
  <2>1. /\ Continue(p)
        /\ \A q \in Window : signals[q] \subseteq signals'[q]
    BY <1>5, NotifyEffect DEF OperationStep, SyncIInv
  <2>2. /\ ~excused
        /\ ~(pc'[p] = "idle" /\ pc[p] # "publish")
        /\ pc[p] = "mirror" => CompatibilityMatches(Candidate(p), native')
    BY <1>5, Zenon DEF OperationStep
  <2>3. CASE pc'[p] \in {"mirror", "open", "undo_mirror", "undone"}
    BY <2>3 DEF Pending
  <2>4. CASE /\ pc[p] \in {"acquire", "load"} /\ pc'[p] \in Asking
             /\ UNCHANGED <<file, native, op, mem>>
             /\ \A q \in Proc \ {p} : pc'[q] = pc[q]
    <3>1. Pending(key)
      BY <1>1, <2>2, <2>4
    <3>2. QED BY <2>1, <2>4, <3>1 DEF Pending, Asking
  <2>5. CASE /\ pc[p] \in {"commit", "publish"} /\ UNCHANGED <<file, native>>
             /\ \A q \in Proc \ {p} : pc'[q] = pc[q] /\ op'[q] = op[q]
    BY <1>1, <1>2, <2>1, <2>2, <2>5
  <2>6. CASE pc[p] = "mirror" /\ UNCHANGED <<file, cand, op>>
    <3>1. file = Candidate(p)
      BY <2>6 DEF SyncIInv, IInv, CandidateFresh
    <3>2. CompatibilityMatches(file, native)'
      BY <2>2, <2>6, <3>1
    <3>3. ~Disagrees(key)'
      BY <3>2 DEF CompatibilityMatches, Disagrees, Key
    <3>4. QED BY <3>3
  <2>7. QED BY <2>1, <2>2, <2>3, <2>4, <2>5, <2>6, OperationEffect DEF SyncIInv
<1>6. ASSUME NEW p \in Window, policy_file_changed(p) PROVE Pending(key)'
  <2>1. /\ pc[p] = "idle" /\ UNCHANGED <<file, native, pc, op, signals, excused>>
    BY <1>6 DEF policy_file_changed, reload, shared
  <2>2. QED BY <1>1, <1>2, <2>1
<1>7. ASSUME NEW p \in Window, NEW taken \in Key, on_cinnamon_interface_changed(p, taken)
      PROVE  Pending(key)'
  <2>1. /\ pc[p] = "idle" /\ signals' = [signals EXCEPT ![p] = @ \ {taken}]
        /\ ~excused
        /\ ShouldTrack(p, taken) \/ mem[p].policy = file \/ p \notin observed \cup unread
    BY <1>7, Zenon DEF on_cinnamon_interface_changed
  <2>2. signals \in [Window -> SUBSET Key]
    BY DEF SyncIInv
  <2>3. CASE ShouldTrack(p, taken)
    <3>1. Call(p, [NoChange EXCEPT ![taken] = native[taken]], FALSE)
      BY <1>7, <2>3, Zenon DEF on_cinnamon_interface_changed
    <3>2. /\ pc'[p] = "acquire" /\ op'[p].change[taken] = native'[taken]
          /\ UNCHANGED <<file, native>>
          /\ \A q \in Proc \ {p} : pc'[q] = pc[q] /\ op'[q] = op[q]
      <4>1. /\ pc'[p] = "acquire" /\ UNCHANGED <<file, native>>
            /\ op'[p].change = [NoChange EXCEPT ![taken] = native[taken]]
            /\ \A q \in Proc \ {p} : pc'[q] = pc[q] /\ op'[q] = op[q]
        BY <3>1, CallEffect
      <4>2. [NoChange EXCEPT ![taken] = native[taken]][taken] = native[taken]
        BY KeyTypes
      <4>3. QED BY <4>1, <4>2
    <3>3. CASE key = taken
      BY <3>2, <3>3 DEF Pending, Asking
    <3>4. CASE key # taken
      <4>1. Pending(key)
        BY <1>1, <2>1, <3>2
      <4>2. \A q \in Window : key \in signals[q] => key \in signals'[q]
        BY <2>1, <2>2, <3>4
      <4>3. QED BY <2>1, <3>2, <4>1, <4>2 DEF Pending, Asking
    <3>5. QED BY <3>3, <3>4
  <2>4. CASE ~ShouldTrack(p, taken)
    <3>1. UNCHANGED vars
      BY <1>7, <2>4, Zenon DEF on_cinnamon_interface_changed
    <3>2. mem[p].policy = file
      BY <2>1, <2>4, <3>1 DEF SyncIInv, UnobservedIsCurrent, vars
    <3>3. Disagrees(key)
      BY <3>1 DEF Disagrees, vars
    <3>4. key # taken
      BY <2>4, <3>2, <3>3 DEF ShouldTrack, Disagrees, ss_native_clock_mode_tracks_desktop
    <3>5. Pending(key)
      BY <1>1, <2>1, <3>1 DEF vars
    <3>6. \A q \in Window : key \in signals[q] => key \in signals'[q]
      BY <2>1, <2>2, <3>4
    <3>7. QED BY <3>1, <3>5, <3>6 DEF Pending, vars
  <2>5. QED BY <2>3, <2>4
<1>8. CASE OtherProgramSets
  <2>1. /\ UNCHANGED <<file, pc, op>> /\ Notify({})
        /\ ~excused /\ \E p \in Window : Connected(p)
    BY <1>8, Zenon DEF OtherProgramSets, DesktopChange
  <2>2. CASE native'[key] # native[key]
    <3>1. PICK p \in Window : Connected(p)
      BY <2>1
    <3>2. key \in signals'[p]
      BY <2>1, <2>2, <3>1, NotifyEffect DEF SyncIInv
    <3>3. QED BY <3>2 DEF Pending
  <2>3. CASE native'[key] = native[key]
    <3>1. Disagrees(key)
      BY <2>1, <2>3 DEF Disagrees
    <3>2. Pending(key)
      BY <2>1, <3>1 DEF DisagreementIsPending
    <3>3. \A q \in Window : signals[q] \subseteq signals'[q]
      BY <2>1, NotifyEffect DEF SyncIInv
    <3>4. QED BY <2>1, <2>3, <3>2, <3>3 DEF Pending
  <2>4. QED BY <2>2, <2>3
<1>9. ASSUME UNCHANGED <<vars, signals, excused>> PROVE Pending(key)'
  BY <1>1, <1>9 DEF vars, Pending
<1>10. ASSUME NEW p \in Window, ContinueOpening(p) PROVE Pending(key)'
  <2>1. UNCHANGED <<signals, excused>>
    BY <1>10, OpeningEffect, Zenon
  <2>2. CASE UNCHANGED vars
    BY <1>9, <2>1, <2>2
  <2>3. CASE Call(p, [NoChange EXCEPT !["clock"] = native["clock"]], FALSE)
    BY <1>1, <1>2, <2>1, <2>3, CallEffect
  <2>4. QED BY <1>10, <2>2, <2>3, OpeningEffect, Zenon
<1>11. ASSUME NEW p \in Window, policy_file_changed_fails(p) PROVE Pending(key)'
  BY <1>9, <1>11 DEF policy_file_changed_fails
<1>12. CASE UNCHANGED syncVars
  BY <1>9, <1>12 DEF syncVars
<1>13. QED
  BY <1>3, <1>4, <1>5, <1>6, <1>7, <1>8, <1>10, <1>11, <1>12 DEF SyncNext, HandleEvent

\* The invariant of the windows holds at the start and is kept by every step.
LEMMA SyncInvariance == SyncSpec => []SyncIInv
<1>1. SyncInit => SyncIInv
  <2>1. SUFFICES ASSUME SyncInit PROVE SyncIInv
    OBVIOUS
  <2>2. IInv
    BY <2>1, InvInit DEF SyncInit
  <2>3. /\ stage \in [Window -> Stage] /\ signals \in [Window -> SUBSET Key]
        /\ observed \subseteq Window /\ tracking \subseteq Window /\ unread \subseteq Window
    BY <2>1 DEF SyncInit, Stage
  <2>4. UnobservedIsCurrent /\ TrackedModeFollows /\ OperatingListens
    BY <2>1, WindowAssumption
       DEF SyncInit, Init, UnobservedIsCurrent, TrackedModeFollows, OperatingListens
  <2>5. DisagreementIsPending
    BY <2>1, MatchIsAgreement DEF SyncInit, DisagreementIsPending
  <2>6. QED BY <2>2, <2>3, <2>4, <2>5 DEF SyncIInv
<1>2. SyncIInv /\ [SyncNext]_syncVars => SyncIInv'
  <2>1. SUFFICES ASSUME SyncIInv, [SyncNext]_syncVars PROVE SyncIInv'
    OBVIOUS
  <2>2. IInv'
    BY <2>1, SyncStepIsModelStep, InvStep DEF SyncIInv, IInv
  <2>3. QED BY <2>1, <2>2, QueueTypes, ListeningStep, UnobservedStep, TrackedStep, PendingStep
          DEF SyncIInv
<1>3. QED BY <1>1, <1>2, PTL DEF SyncSpec

\* When no event is left every window that was told of the last change and could
\* read it shows the policy on disk, for any number of windows and tools
\* (policy_file_changed, save_candidate).
THEOREM WindowsAgree == SyncSpec => []WindowsAgreeAtRest
<1>1. SyncIInv => WindowsAgreeAtRest
  BY DEF SyncIInv, UnobservedIsCurrent, WindowsAgreeAtRest, Quiet
<1>2. QED BY <1>1, SyncInvariance, PTL

\* When no event is left, nothing failed and no native key was turned down by an
\* outdated policy, the desktop shows the policy's native equivalent
\* (on_cinnamon_interface_changed, mirror_cinnamon_compatibility).
THEOREM DesktopAgrees == SyncSpec => []DesktopAgreesAtRest
<1>1. ASSUME SyncIInv PROVE DesktopAgreesAtRest
  <2>1. SUFFICES ASSUME Quiet, ~excused, file \in Policy
                 PROVE  CompatibilityMatches(file, native)
    BY DEF DesktopAgreesAtRest
  <2>2. \A key \in Key : ~Pending(key)
    BY <2>1 DEF Quiet, Pending, Asking
  <2>3. QED BY <1>1, <2>1, <2>2, MatchIsAgreement DEF SyncIInv, DisagreementIsPending
<1>2. QED BY <1>1, SyncInvariance, PTL

\* An operation that brings a native key into the policy, a signal's or the
\* migration's, replaces an extended clock mode only while the window does not know
\* of that mode: its news is in the queue, was missed or could not be read.
THEOREM ExtendedModesAreKept == SyncSpec => OnlyUnreadModesAreReplaced
<1>1. ASSUME SyncIInv, [SyncNext]_syncVars, NEW p \in tracking,
             pc[p] = "save", file \in Policy,
             ~ss_native_clock_mode_tracks_desktop(file.clock), file' # file,
             p \notin observed \cup unread
      PROVE  file'.clock = file.clock
  <2> TypeOK /\ p \in Window /\ p \in Proc
    BY <1>1, WindowAssumption DEF SyncIInv, IInv
  <2>1. file' = Candidate(p)
    <3>1. lock = p /\ \A q \in Proc : pc[q] \in Holding => q = p
      BY <1>1 DEF SyncIInv, IInv, LockOwnership, Holding
    <3>2. PICK q \in Proc : Continue(q)
      <4>1. ~\E q \in Proc : Open(q) \/ UserSets(q)
        BY <1>1, UserBegins, BeginIsCall, CallEffect, Zenon DEF Open, Start, shared
      <4>2. ~\E q \in Window : HandleEvent(q) \/ ContinueOpening(q)
        <5>1. \A q \in Window : ~policy_file_changed(q)
          BY <1>1 DEF policy_file_changed, reload, shared
        <5>2. \A q \in Window, key \in Key : ~on_cinnamon_interface_changed(q, key)
          BY <1>1 DEF on_cinnamon_interface_changed, Call, vars, shared
        <5>3. \A q \in Window : ~policy_file_changed_fails(q)
          BY <1>1 DEF policy_file_changed_fails, vars
        <5>4. \A q \in Window : ~ContinueOpening(q)
          BY <1>1, OpeningEffect DEF Call, vars, shared
        <5>5. QED BY <5>1, <5>2, <5>3, <5>4 DEF HandleEvent
      <4>3. ~OtherProgramSets /\ ~UNCHANGED syncVars
        BY <1>1 DEF OtherProgramSets, DesktopChange, syncVars, vars
      <4>4. QED BY <1>1, <4>1, <4>2, <4>3 DEF SyncNext, OperationStep
    <3>3. save(q) \/ save_fails(q) \/ rollback_location_update(q) \/ rollback_fails(q)
      BY <1>1, <3>2, Zenon
      DEF Continue, begin_update, begin_update_fails, load_candidate, load_candidate_fails,
          mirror, release_update_lock, publish, open_location_update, finish_location_update,
          rollback_mirror, rollback_done, shared
    <3>4. pc[q] \in {"save", "open"}
      BY <3>3 DEF save, save_fails, rollback_location_update, rollback_fails
    <3>5. q = p
      BY <3>1, <3>4 DEF Holding
    <3>6. QED BY <1>1, <3>3, <3>5 DEF save, save_fails, MayHaveWritten,
                 rollback_location_update, rollback_fails
  <2>2. cand[p].policy = file
    BY <1>1 DEF SyncIInv, IInv, CandidateFresh
  <2>3. mem[p].policy = file
    BY <1>1 DEF SyncIInv, UnobservedIsCurrent
  <2>4. op[p].change.clock = Same
    BY <1>1, <2>3 DEF SyncIInv, TrackedModeFollows, Asking
  <2>5. QED BY <2>1, <2>2, <2>4 DEF Candidate, Assign, Chosen
<1>2. SyncIInv /\ [SyncNext]_syncVars =>
        [\A p \in tracking :
           /\ pc[p] = "save" /\ file \in Policy
           /\ ~ss_native_clock_mode_tracks_desktop(file.clock)
           => \/ file' = file
              \/ file'.clock = file.clock
              \/ p \in observed \cup unread]_syncVars
  BY <1>1
<1>3. QED BY <1>2, SyncInvariance, PTL DEF SyncSpec, OnlyUnreadModesAreReplaced
=============================================================================
