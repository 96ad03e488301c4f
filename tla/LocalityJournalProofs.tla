----------------------- MODULE LocalityJournalProofs ------------------------
(***************************************************************************)
(* Proofs about LocalityJournal, for any number of windows and tools, any  *)
(* places and zones, and any choice of faults: a pair of coordinates and   *)
(* metadata stays recoverable, a rollback restores what it found, and      *)
(* location.ini never runs ahead of the policy.  The last section proves   *)
(* the properties of LocalityReconcile, where the windows also answer      *)
(* changes of the time zone.                                               *)
(***************************************************************************)
EXTENDS LocalityReconcile, TLAPS

(***************************************************************************)
(* The inductive invariant.  location.lock makes at most one process's     *)
(* transaction or recovery run at a time; presentation.lock keeps the      *)
(* policy still from its load to the end of the commit.  What each step of *)
(* that one transaction knows of the three files is the rest.              *)
(***************************************************************************)
Outside == {"idle", "lock_locality", "lock_recovery"}

\* location.lock is held exactly inside a transaction or a recovery.
LocalityLock == \A p \in Proc : llock = p <=> pc[p] \notin Outside

\* presentation.lock is held from the load to the commit or the rollback.
PolicyLock(p) ==
  /\ pc[p] \in {"load_policy", "save", "publish", "rollback"} => plock = p
  /\ pc[p] = "stage" => (plock = p <=> p \in Cli)
  /\ plock = p => pc[p] \in {"load_policy", "stage", "save", "publish", "unjournal",
                             "finish", "rollback", "discard"}

\* Who reaches which step, and with which target.
Roles(p) ==
  /\ pc[p] \in {"reload", "lock_recovery", "recover", "recover_clear"} => p \in Gui
  /\ pc[p] \in {"lock_locality", "reload", "stage", "lock_policy", "load_policy",
                "save", "publish", "rollback", "discard"} /\ p \in Gui => target[p] \in Loc
  /\ pc[p] \in {"stage", "discard"} => target[p] \in Loc

\* prev is set by the load, and the policy stays what was loaded until the save.
PreviousKnown(p) ==
  /\ pc[p] \in {"idle", "lock_locality", "reload", "lock_policy", "load_policy",
                "lock_recovery", "recover", "recover_clear"} => prev[p] = Unread
  /\ pc[p] = "stage" => prev[p] = IF p \in Gui THEN Unread ELSE conf
  /\ pc[p] = "save" => prev[p] = conf
  /\ pc[p] \in {"publish", "rollback"} => prev[p] # Unread

\* The new place is committed only once its journal is on disk.
CommitIsStaged(p) ==
  /\ pc[p] \in {"lock_policy", "load_policy"} /\ p \in Gui => Describes(pending, target[p])
  /\ pc[p] \in {"save", "publish", "rollback"} /\ target[p] \in Loc =>
       Describes(pending, target[p])
  /\ pc[p] \in {"publish", "rollback"} => conf = target[p]

\* When the journal is about to go, location.ini already says what it said.
PublishedBeforeUnjournal(p) ==
  /\ pc[p] \in {"unjournal", "finish"} => (Configured(conf) => Describes(ini, conf))
  /\ pc[p] = "recover_clear" => ~Configured(conf)

\* A process that has overwritten the journal without a slip has found the
\* old place published.
OldPairPublished(p) ==
  slips = {} =>
    /\ pc[p] \in {"lock_policy", "load_policy"} /\ p \in Gui =>
         (Configured(conf) => Describes(ini, conf))
    /\ pc[p] = "discard" => (Configured(conf) => Describes(ini, conf))
    /\ pc[p] \in {"save", "publish", "rollback"} /\ prev[p] \in Loc =>
         \/ Describes(ini, prev[p])
         \/ target[p] = NoLoc /\ Describes(pending, prev[p])

\* RollbackExact for one process.
Restored(p) ==
  "misreported" \notin slips =>
    (pc[p] = "discard" /\ prev[p] # Unread => SamePlace(conf, prev[p]))

\* What one process knows.
Knows(p) ==
  /\ PolicyLock(p)
  /\ Roles(p)
  /\ PreviousKnown(p)
  /\ CommitIsStaged(p)
  /\ PublishedBeforeUnjournal(p)
  /\ OldPairPublished(p)
  /\ Restored(p)

IInv ==
  /\ TypeOK
  /\ LocalityLock
  /\ OnlySlipsLoseAPair
  /\ \A p \in Proc : Knows(p)

-----------------------------------------------------------------------------
(***************************************************************************)
(* The operators.                                                          *)
(***************************************************************************)
\* What is staged for a place describes that place (ss_location_metadata_stage).
LEMMA CandidateType ==
  ASSUME TypeOK, NEW p \in Proc, target[p] \in Loc, NEW m \in Candidate(p)
  PROVE  m \in Metadata /\ Describes(m, target[p])
BY DEF TypeOK, Candidate, Metadata, Describes

\* The history only grows, and by the slip noted, except at finish.
LEMMA NoteGrows ==
  ASSUME NEW s \in {"restaged", "misreported"}, NEW h \in BOOLEAN, Note(s, h),
         slips \subseteq {"restaged", "misreported"}
  PROVE  /\ slips' \subseteq {"restaged", "misreported"}
         /\ slips' = {} => slips = {} /\ ~h
         /\ s \notin slips' => ~h
         /\ \A t : t \notin slips' => t \notin slips
BY DEF Note

\* A step that may fail late writes the old content or the new one.
LEMMA FailedEither ==
  ASSUME NEW old, NEW new, NEW x \in Failed(old, new)
  PROVE  x = old \/ x = new
BY DEF Failed

\* A removal leaves the journal or nothing.
LEMMA RemoveEither == RemoveJournal => pending' = Missing \/ pending' = pending
BY DEF RemoveJournal

-----------------------------------------------------------------------------
(***************************************************************************)
(* Type correctness.  What is staged is a record only because the target   *)
(* of a process that stages is a place, and what a rollback writes is a    *)
(* policy only because the transaction has read one: the types need Roles  *)
(* and PreviousKnown.                                                      *)
(***************************************************************************)
\* Every initial state satisfies the inductive invariant.
LEMMA InvInit == Init => IInv
<1> SUFFICES ASSUME Init PROVE IInv
  OBVIOUS
<1>1. \A m \in Metadata : m.at \in Loc
  BY DEF Metadata
<1>2. TypeOK
  BY <1>1 DEF Init, TypeOK, Step
<1>3. OnlySlipsLoseAPair
  BY <1>1, LocAssumption DEF Init, OnlySlipsLoseAPair, PairKept, Configured, Describes
<1>4. LocalityLock
  BY ProcAssumption DEF Init, LocalityLock, Outside
<1>5. ASSUME NEW p \in Proc PROVE Knows(p)
  BY ProcAssumption
  DEF Init, Knows, PolicyLock, Roles, PreviousKnown, CommitIsStaged,
      PublishedBeforeUnjournal, OldPairPublished, Restored
<1>6. QED BY <1>2, <1>3, <1>4, <1>5 DEF IInv

\* Every step keeps the state well typed.
LEMMA TypeStep ==
  ASSUME TypeOK, \A p \in Proc : Roles(p) /\ PreviousKnown(p), [Next]_vars
  PROVE  TypeOK'
<1> USE DEF TypeOK, Goto, files, local, others, Step
<1>1. ASSUME NEW p \in Proc, Transaction(p) PROVE TypeOK'
  <2>1. CASE ChoosePlace(p) \/ transaction_begin_fails(p)
    BY <2>1 DEF ChoosePlace, transaction_begin_fails
  <2>2. CASE transaction_begin(p)
    BY <2>2 DEF transaction_begin
  <2>3. CASE load_authoritative_location_metadata(p) \/ load_authoritative_location_metadata_fails(p)
    BY <2>3 DEF load_authoritative_location_metadata,
                load_authoritative_location_metadata_fails, End
  <2>4. CASE stage(p) \/ stage_fails(p)
    <3>1. pc[p] = "stage" /\ target[p] \in Loc
      BY <2>4 DEF stage, stage_fails, Roles
    <3>2. pending' \in Metadata \cup {Missing, Corrupt}
      BY <2>4, <3>1, CandidateType, FailedEither DEF stage, stage_fails
    <3>3. slips' \subseteq {"restaged", "misreported"}
      BY <2>4 DEF stage, stage_fails, Note
    <3>4. QED BY <2>4, <3>2, <3>3 DEF stage, stage_fails, End
  <2>5. CASE begin_update(p) \/ begin_update_fails(p)
    BY <2>5 DEF begin_update, begin_update_fails, End
  <2>6. CASE load_policy(p) \/ load_policy_fails(p)
    <3>1. prev' \in [Proc -> Loc \cup {NoLoc, Absent, Unread}]
      BY <2>6 DEF load_policy, load_policy_fails, End, ToDiscard
    <3>2. QED BY <2>6, <3>1 DEF load_policy, load_policy_fails, End, ToDiscard
  <2>7. CASE save(p) \/ save_fails(p)
    <3>1. conf' \in Loc \cup {NoLoc, Absent}
      BY <2>7, FailedEither DEF save, save_fails
    <3>2. slips' \subseteq {"restaged", "misreported"}
      BY <2>7 DEF save, save_fails, Misreport, Note
    <3>3. QED BY <2>7, <3>1, <3>2 DEF save, save_fails, End, ToDiscard
  <2>8. CASE publish(p) \/ publish_fails(p)
    <3>1. ini' \in Metadata \cup {Missing, Corrupt}
      BY <2>8, FailedEither DEF publish, publish_fails, Published
    <3>2. slips' \subseteq {"restaged", "misreported"}
      BY <2>8 DEF publish, publish_fails, Misreport, Note
    <3>3. QED BY <2>8, <3>1, <3>2 DEF publish, publish_fails
  <2>9. CASE remove_journal(p) \/ finish(p)
    BY <2>9, RemoveEither DEF remove_journal, finish, End
  <2>10. CASE rollback(p) \/ rollback_fails(p)
    <3>1. conf' \in Loc \cup {NoLoc, Absent}
      BY <2>10, FailedEither DEF rollback, rollback_fails, PreviousKnown
    <3>2. slips' \subseteq {"restaged", "misreported"}
      BY <2>10 DEF rollback, rollback_fails, Misreport, Note
    <3>3. QED BY <2>10, <3>1, <3>2 DEF rollback, rollback_fails, End, ToDiscard
  <2>11. CASE discard_staged(p)
    BY <2>11, RemoveEither DEF discard_staged, End
  <2>12. QED
    BY <1>1, <2>1, <2>2, <2>3, <2>4, <2>5, <2>6, <2>7, <2>8, <2>9, <2>10, <2>11
    DEF Transaction
<1>2. ASSUME NEW p \in Proc, Recovery(p) PROVE TypeOK'
  <2>1. CASE recover(p) \/ recover_reads_fail(p) \/ recover_finds_nothing(p)
    BY <2>1 DEF recover, recover_reads_fail, recover_finds_nothing, End
  <2>2. CASE recover_completes(p) \/ recover_complete_fails(p)
    BY <2>2, FailedEither DEF recover_completes, recover_complete_fails, End
  <2>3. CASE recover_discards(p) \/ recover_discard_fails(p)
    BY <2>3, FailedEither DEF recover_discards, recover_discard_fails, End
  <2>4. CASE recover_clears(p)
    BY <2>4 DEF recover_clears, End
  <2>5. QED BY <1>2, <2>1, <2>2, <2>3, <2>4 DEF Recovery
<1>3. ASSUME NEW p \in Proc, Crash(p) PROVE TypeOK'
  BY <1>3 DEF Crash
<1>4. CASE OtherSetter \/ ZoneChange
  BY <1>4 DEF OtherSetter, ZoneChange
<1>5. CASE UNCHANGED vars
  BY <1>5 DEF vars
<1>6. QED BY <1>1, <1>2, <1>3, <1>4, <1>5 DEF Next

-----------------------------------------------------------------------------
(***************************************************************************)
(* The steps.                                                              *)
(***************************************************************************)
\* A step that leaves the files, the policy lock and a process's own variables
\* alone leaves what that process knows.
LEMMA Frame ==
  ASSUME NEW q \in Proc, Knows(q), UNCHANGED <<conf, ini, pending, slips>>,
         pc'[q] = pc[q], target'[q] = target[q], prev'[q] = prev[q],
         plock' = q <=> plock = q
  PROVE  Knows(q)'
BY DEF Knows, PolicyLock, Roles, PreviousKnown, CommitIsStaged, PublishedBeforeUnjournal,
       OldPairPublished, Restored, SamePlace, Describes, Configured

\* A process outside knows nothing of the files, so whatever is done to them
\* by the one inside leaves what it knows.
LEMMA OutsideKnows ==
  ASSUME NEW q \in Proc, Knows(q), pc[q] \in Outside,
         pc'[q] = pc[q], target'[q] = target[q], prev'[q] = prev[q],
         plock' = q => plock = q
  PROVE  Knows(q)'
BY DEF Knows, PolicyLock, Roles, PreviousKnown, CommitIsStaged, PublishedBeforeUnjournal,
       OldPairPublished, Restored, Outside

\* A step of the process inside touches only its own program state.
OwnStep(p) ==
  /\ pc[p] \notin Outside
  /\ \E to \in Step : \E l, c : /\ pc' = [pc EXCEPT ![p] = to]
                                /\ target' = [target EXCEPT ![p] = l]
                                /\ prev' = [prev EXCEPT ![p] = c]
                                /\ llock' = IF to \in Outside THEN NoProc ELSE p
  /\ plock' \in {plock, p, NoProc}

\* The process inside is the only one: a step of its own keeps the invariant as
\* soon as it keeps the pair and what that process knows.
LEMMA OwnStepKeeps ==
  ASSUME IInv, TypeOK', NEW p \in Proc, OwnStep(p), OnlySlipsLoseAPair', Knows(p)'
  PROVE  IInv'
<1>1. \A q \in Proc : q # p => pc[q] \in Outside
  BY DEF IInv, LocalityLock, OwnStep
<1>2. \A q \in Proc : q # p => /\ pc'[q] = pc[q] /\ target'[q] = target[q]
                               /\ prev'[q] = prev[q]
  BY DEF IInv, TypeOK, OwnStep
<1>3. LocalityLock'
  <2>1. llock' = IF pc'[p] \in Outside THEN NoProc ELSE p
    BY DEF IInv, TypeOK, OwnStep
  <2>2. QED BY <1>1, <1>2, <2>1, ProcAssumption DEF LocalityLock
<1>4. ASSUME NEW q \in Proc, q # p PROVE Knows(q)'
  BY <1>1, <1>2, <1>4, OutsideKnows, ProcAssumption DEF IInv, OwnStep
<1>5. QED BY <1>3, <1>4 DEF IInv

\* A handler that returns knows nothing any more: only the pair is left to show.
LEMMA EndKeeps ==
  ASSUME IInv, TypeOK', NEW p \in Proc, pc[p] \notin Outside, End(p), OnlySlipsLoseAPair'
  PROVE  IInv'
<1>1. OwnStep(p)
  BY DEF OwnStep, End, Goto, Outside, Step
<1>2. pc'[p] = "idle" /\ prev'[p] = Unread /\ plock' # p
  BY ProcAssumption DEF IInv, TypeOK, End, Goto
<1>3. Knows(p)'
  BY <1>2
  DEF Knows, PolicyLock, Roles, PreviousKnown, CommitIsStaged, PublishedBeforeUnjournal,
      OldPairPublished, Restored
<1>4. QED BY <1>1, <1>3, OwnStepKeeps

\* A handler that goes on to another step inside.
LEMMA GotoIsOwn ==
  ASSUME IInv, NEW p \in Proc, pc[p] \notin Outside, NEW to \in Step \ Outside, Goto(p, to),
         NEW c, prev' = [prev EXCEPT ![p] = c], UNCHANGED <<llock, target>>,
         plock' \in {plock, p, NoProc}
  PROVE  OwnStep(p) /\ pc'[p] = to /\ prev'[p] = c
<1>1. target' = [target EXCEPT ![p] = target[p]]
  BY DEF IInv, TypeOK
<1>2. llock' = p
  BY DEF IInv, LocalityLock
<1>3. OwnStep(p)
  BY <1>1, <1>2 DEF OwnStep, Goto
<1>4. QED BY <1>3 DEF IInv, TypeOK, Goto

\* The usual case: prev stays.
LEMMA StepIsOwn ==
  ASSUME IInv, NEW p \in Proc, pc[p] \notin Outside, NEW to \in Step \ Outside, Goto(p, to),
         UNCHANGED <<llock, target, prev>>, plock' \in {plock, p, NoProc}
  PROVE  OwnStep(p) /\ pc'[p] = to
<1>1. prev' = [prev EXCEPT ![p] = prev[p]]
  BY DEF IInv, TypeOK
<1>2. QED BY <1>1, GotoIsOwn

-----------------------------------------------------------------------------
(***************************************************************************)
(* One lemma per group of actions.                                         *)
(***************************************************************************)
\* Choosing a place, starting a recovery, taking location.lock or giving up on
\* it touch no file.
LEMMA EntrySteps ==
  ASSUME IInv, TypeOK', NEW p \in Proc,
         \/ ChoosePlace(p)
         \/ recover(p)
         \/ transaction_begin(p)
         \/ transaction_begin_fails(p)
  PROVE  IInv'
<1> USE DEF ChoosePlace, recover, transaction_begin, transaction_begin_fails, Goto, files,
            local, others
<1>1. /\ UNCHANGED <<conf, ini, pending, slips, plock, prev>>
      /\ pc[p] \in Outside
      /\ \A q \in Proc : q # p => pc'[q] = pc[q] /\ target'[q] = target[q]
  BY DEF IInv, TypeOK, Outside
<1>2. OnlySlipsLoseAPair'
  BY <1>1 DEF IInv, OnlySlipsLoseAPair, PairKept, Configured, Describes
<1>3. LocalityLock'
  BY <1>1, ProcAssumption DEF IInv, TypeOK, LocalityLock, Outside
<1>4. ASSUME NEW q \in Proc, q # p PROVE Knows(q)'
  BY <1>1, <1>4, Frame DEF IInv
<1>5. Knows(p)'
  <2>1. plock # p /\ prev[p] = Unread
    BY <1>1 DEF IInv, Knows, PolicyLock, PreviousKnown, Outside
  <2>2. /\ pc'[p] \in {"idle", "lock_locality", "lock_recovery", "recover", "reload", "lock_policy"}
        /\ pc'[p] \in {"lock_recovery", "recover", "reload"} => p \in Gui
        /\ pc'[p] = "lock_policy" => p \notin Gui
        /\ pc'[p] \in {"lock_locality", "reload"} /\ p \in Gui => target'[p] \in Loc
    <3>1. CASE ChoosePlace(p)
      BY <1>1, <3>1 DEF IInv, TypeOK
    <3>2. CASE recover(p)
      BY <1>1, <3>2 DEF IInv, TypeOK
    <3>3. CASE transaction_begin(p)
      BY <1>1, <3>3 DEF IInv, TypeOK, Knows, Roles
    <3>4. CASE transaction_begin_fails(p)
      BY <1>1, <3>4 DEF IInv, TypeOK
    <3>5. QED BY <3>1, <3>2, <3>3, <3>4
  <2>3. QED
    BY <1>1, <2>1, <2>2
    DEF Knows, PolicyLock, Roles, PreviousKnown, CommitIsStaged, PublishedBeforeUnjournal,
        OldPairPublished, Restored
<1>6. QED BY <1>2, <1>3, <1>4, <1>5 DEF IInv

\* Reloading location.ini under the lock touches no file.
LEMMA ReloadSteps ==
  ASSUME IInv, TypeOK', NEW p \in Proc,
         \/ load_authoritative_location_metadata(p)
         \/ load_authoritative_location_metadata_fails(p)
  PROVE  IInv'
<1> USE DEF load_authoritative_location_metadata, load_authoritative_location_metadata_fails,
            files, local, others
<1>1. OnlySlipsLoseAPair'
  BY DEF IInv, OnlySlipsLoseAPair, PairKept, Configured, Describes
<1>2. pc[p] = "reload"
  OBVIOUS
<1>3. CASE load_authoritative_location_metadata(p)
  <2>1. OwnStep(p) /\ pc'[p] = "stage"
    BY <1>2, <1>3, StepIsOwn DEF Step, Outside
  <2>2. p \in Gui /\ p \notin Cli /\ target[p] \in Loc /\ prev[p] = Unread /\ plock # p
    BY <1>2, ProcAssumption DEF IInv, Knows, PolicyLock, Roles, PreviousKnown
  <2>3. Knows(p)'
    BY <1>2, <1>3, <2>1, <2>2
    DEF Knows, PolicyLock, Roles, PreviousKnown, CommitIsStaged,
        PublishedBeforeUnjournal, OldPairPublished, Restored
  <2>4. QED BY <1>1, <2>1, <2>3, OwnStepKeeps
<1>4. QED BY <1>1, <1>2, <1>3, EndKeeps DEF Outside

\* Staging keeps the pair: either the journal was not needed, or it is noted
\* that one that was is lost (ss_location_metadata_stage).
LEMMA StageSteps ==
  ASSUME IInv, TypeOK', NEW p \in Proc, stage(p) \/ stage_fails(p)
  PROVE  IInv'
<1>1. pc[p] = "stage" /\ target[p] \in Loc /\ UNCHANGED <<conf, ini>>
  BY DEF stage, stage_fails, IInv, Knows, Roles
<1>2. pending' = pending \/ Describes(pending', target[p])
  BY <1>1, CandidateType, FailedEither DEF stage, stage_fails, IInv
<1>3. slips' = {} => /\ slips = {}
                     /\ pending' = pending \/ (Configured(conf) => Describes(ini, conf))
  BY NoteGrows DEF stage, stage_fails, IInv, TypeOK, OnlySlipsLoseAPair, PairKept, Unfinished
<1>4. OnlySlipsLoseAPair'
  BY <1>1, <1>3 DEF IInv, OnlySlipsLoseAPair, PairKept, Configured, Describes
<1>5. CASE stage(p)
  <2> DEFINE to == IF p \in Gui THEN "lock_policy" ELSE "save"
  <2>1. OwnStep(p) /\ pc'[p] = to
    <3>1. to \in Step \ Outside
      BY DEF Step, Outside
    <3>2. QED BY <1>1, <1>5, <3>1, StepIsOwn DEF stage, local, Outside
  <2>2. Describes(pending', target[p])
    BY <1>1, <1>5, CandidateType DEF stage, IInv
  <2>3. slips' = {} => (Configured(conf) => Describes(ini, conf))
    BY <1>5, NoteGrows
    DEF stage, IInv, TypeOK, OnlySlipsLoseAPair, PairKept, Unfinished
  <2>4. /\ p \in Cli => plock = p /\ prev[p] = conf
        /\ p \in Gui => plock # p /\ prev[p] = Unread
    BY <1>1, ProcAssumption DEF IInv, Knows, PolicyLock, PreviousKnown, Proc
  <2>5. Knows(p)'
    BY <1>1, <1>5, <2>1, <2>2, <2>3, <2>4, ProcAssumption
    DEF stage, local, Knows, PolicyLock, Roles, PreviousKnown, CommitIsStaged,
        PublishedBeforeUnjournal, OldPairPublished, Restored, Configured, Describes, Proc
  <2>6. QED BY <1>4, <2>1, <2>5, OwnStepKeeps
<1>6. QED BY <1>1, <1>4, <1>5, EndKeeps DEF stage_fails, Outside

\* Taking presentation.lock and loading the policy touch no file.
LEMMA LoadSteps ==
  ASSUME IInv, TypeOK', NEW p \in Proc,
         \/ begin_update(p)
         \/ begin_update_fails(p)
         \/ load_policy(p)
         \/ load_policy_fails(p)
  PROVE  IInv'
<1> USE DEF begin_update, begin_update_fails, load_policy, load_policy_fails, ToDiscard,
            files, local, others
<1>1. pc[p] \in {"lock_policy", "load_policy"} /\ UNCHANGED <<conf, ini, pending, slips>>
  OBVIOUS
<1>2. OnlySlipsLoseAPair'
  BY <1>1 DEF IInv, OnlySlipsLoseAPair, PairKept, Configured, Describes
<1>3. Knows(p) /\ prev[p] = Unread /\ (p \in Gui <=> p \notin Cli) /\ (p \in Gui => target[p] \in Loc)
  BY <1>1, ProcAssumption DEF IInv, Knows, PreviousKnown, Roles, Proc
<1> DEFINE Moved(to) == OwnStep(p) /\ pc'[p] = to
<1>4. CASE begin_update(p)
  <2>1. Moved("load_policy")
    BY <1>1, <1>4, StepIsOwn DEF Step, Outside
  <2>2. Knows(p)'
    BY <1>1, <1>3, <1>4, <2>1
    DEF Knows, PolicyLock, Roles, PreviousKnown, CommitIsStaged, PublishedBeforeUnjournal,
        OldPairPublished, Restored, Configured, Describes
  <2>3. QED BY <1>2, <2>1, <2>2, OwnStepKeeps
<1>5. CASE load_policy(p)
  <2> DEFINE to == IF p \in Gui \/ target[p] = NoLoc THEN "save" ELSE "stage"
  <2>1. Moved(to) /\ prev'[p] = conf
    <3>1. to \in Step \ Outside
      BY DEF Step, Outside
    <3>2. QED BY <1>1, <1>5, <3>1, GotoIsOwn DEF Step, Outside
  <2>2. conf # Unread /\ target[p] \in Loc \cup {NoLoc} /\ plock = p
    BY <1>5, LocAssumption DEF IInv, TypeOK, Knows, PolicyLock
  <2>3. slips = {} /\ conf \in Loc => Describes(ini, conf) \/ Describes(pending, conf)
    BY DEF IInv, OnlySlipsLoseAPair, PairKept, Configured
  <2>4. Knows(p)'
    BY <1>1, <1>3, <1>5, <2>1, <2>2, <2>3, LocAssumption
    DEF Knows, PolicyLock, Roles, PreviousKnown, CommitIsStaged, PublishedBeforeUnjournal,
        OldPairPublished, Restored, Configured, Describes
  <2>5. QED BY <1>2, <2>1, <2>4, OwnStepKeeps
<1>6. CASE (begin_update_fails(p) \/ load_policy_fails(p)) /\ p \in Gui
  <2>1. Moved("discard")
    BY <1>1, <1>6, StepIsOwn DEF Step, Outside
  <2>2. Knows(p)'
    BY <1>1, <1>3, <1>6, <2>1
    DEF Knows, PolicyLock, Roles, PreviousKnown, CommitIsStaged, PublishedBeforeUnjournal,
        OldPairPublished, Restored, Configured, Describes
  <2>3. QED BY <1>2, <2>1, <2>2, OwnStepKeeps
<1>7. QED BY <1>1, <1>2, <1>4, <1>5, <1>6, EndKeeps DEF Outside

\* Saving the policy: the journal describes the new place before the policy
\* holds it, and a save reported as failed either left the policy alone or is
\* noted (linux_temporal_policy_save).
LEMMA SaveSteps ==
  ASSUME IInv, TypeOK', NEW p \in Proc, save(p) \/ save_fails(p)
  PROVE  IInv'
<1>1. /\ pc[p] = "save" /\ plock = p
      /\ prev[p] = conf /\ prev[p] # Unread
      /\ target[p] \in Loc \cup {NoLoc}
      /\ target[p] \in Loc => Describes(pending, target[p])
      /\ (p \in Gui <=> p \notin Cli) /\ (p \in Gui => target[p] \in Loc)
      /\ slips = {} => (conf \in Loc => \/ Describes(ini, conf)
                                        \/ target[p] = NoLoc /\ Describes(pending, conf))
  BY ProcAssumption, LocAssumption
  DEF save, save_fails, IInv, TypeOK, Knows, PolicyLock, Roles, PreviousKnown,
      CommitIsStaged, OldPairPublished, Proc
<1>2. CASE save(p)
  <2>1. OwnStep(p) /\ pc'[p] = "publish"
    BY <1>1, <1>2, StepIsOwn DEF save, local, Step, Outside
  <2>2. /\ conf' = target[p] /\ plock' = p /\ target' = target /\ prev' = prev
        /\ UNCHANGED <<ini, pending, slips>>
    BY <1>1, <1>2 DEF save, local, others
  <2>3. OnlySlipsLoseAPair'
    BY <1>1, <2>2, LocAssumption DEF OnlySlipsLoseAPair, PairKept, Configured, Describes
  <2>4. Knows(p)'
    BY <1>1, <2>1, <2>2
    DEF Knows, PolicyLock, Roles, PreviousKnown, CommitIsStaged, PublishedBeforeUnjournal,
        OldPairPublished, Restored, Describes
  <2>5. QED BY <2>1, <2>3, <2>4, OwnStepKeeps
<1>3. CASE save_fails(p)
  <2>1. (conf' = conf \/ conf' = target[p]) /\ UNCHANGED <<ini, pending>>
    BY <1>3, FailedEither DEF save_fails
  <2>2. /\ slips' = {} => slips = {} /\ conf' = conf
        /\ "misreported" \notin slips' => conf' = conf
    BY <1>3, NoteGrows DEF save_fails, Misreport, IInv, TypeOK
  <2>3. OnlySlipsLoseAPair'
    BY <1>1, <2>1, <2>2 DEF OnlySlipsLoseAPair, PairKept, Configured, Describes
  <2>4. CASE target[p] = NoLoc
    BY <1>1, <1>3, <2>3, <2>4, EndKeeps DEF save_fails, Outside
  <2>5. CASE target[p] # NoLoc
    <3>1. ToDiscard(p)
      BY <1>3, <2>5 DEF save_fails
    <3>2. OwnStep(p) /\ pc'[p] = "discard"
      BY <1>1, <3>1, StepIsOwn DEF ToDiscard, local, Step, Outside
    <3>3. UNCHANGED <<target, prev>> /\ plock' = IF p \in Gui THEN NoProc ELSE plock
      BY <3>1 DEF ToDiscard, local
    <3>4. Knows(p)'
      BY <1>1, <2>1, <2>2, <2>5, <3>2, <3>3, ProcAssumption
      DEF Knows, PolicyLock, Roles, PreviousKnown, CommitIsStaged, PublishedBeforeUnjournal,
          OldPairPublished, Restored, SamePlace, Configured, Describes
    <3>5. QED BY <2>3, <3>2, <3>4, OwnStepKeeps
  <2>6. QED BY <2>4, <2>5
<1>4. QED BY <1>2, <1>3

\* Publishing location.ini: the record published describes the committed
\* place, and the journal still does (ss_location_metadata_finish_staged).
LEMMA PublishSteps ==
  ASSUME IInv, TypeOK', NEW p \in Proc, publish(p) \/ publish_fails(p)
  PROVE  IInv'
<1>1. /\ pc[p] = "publish" /\ plock = p /\ prev[p] # Unread /\ conf = target[p]
      /\ target[p] \in Loc \cup {NoLoc}
      /\ target[p] \in Loc => Describes(pending, target[p])
      /\ p \in Gui => target[p] \in Loc
      /\ slips = {} => (prev[p] \in Loc => \/ Describes(ini, prev[p])
                                           \/ target[p] = NoLoc /\ Describes(pending, prev[p]))
  BY ProcAssumption, LocAssumption
  DEF publish, publish_fails, IInv, TypeOK, Knows, PolicyLock, Roles, PreviousKnown,
      CommitIsStaged, OldPairPublished, Proc
<1>2. UNCHANGED <<conf, pending, llock, plock, target, prev>>
  BY DEF publish, publish_fails, local
<1>3. CASE publish(p)
  <2> DEFINE to == IF target[p] = NoLoc THEN "finish" ELSE "unjournal"
  <2>1. OwnStep(p) /\ pc'[p] = to
    <3>1. to \in Step \ Outside
      BY DEF Step, Outside
    <3>2. QED BY <1>2, <1>1, <1>3, <3>1, StepIsOwn DEF publish, Outside
  <2>2. conf' \in Loc => Describes(ini', conf')
    BY <1>2, <1>1, <1>3, LocAssumption DEF publish, Published, Describes
  <2>3. OnlySlipsLoseAPair'
    BY <2>2 DEF OnlySlipsLoseAPair, PairKept, Configured
  <2>4. Knows(p)'
    BY <1>2, <1>1, <2>1, <2>2
    DEF Knows, PolicyLock, Roles, PreviousKnown, CommitIsStaged, PublishedBeforeUnjournal,
        OldPairPublished, Restored, Configured
  <2>5. QED BY <2>1, <2>3, <2>4, OwnStepKeeps
<1>4. CASE publish_fails(p)
  <2>1. OwnStep(p) /\ pc'[p] = "rollback"
    BY <1>2, <1>1, <1>4, StepIsOwn DEF publish_fails, Step, Outside
  <2>2. slips' = {} => slips = {} /\ ini' = ini
    BY <1>4, NoteGrows DEF publish_fails, Misreport, IInv, TypeOK
  <2>3. OnlySlipsLoseAPair'
    BY <1>2, <1>1, LocAssumption DEF OnlySlipsLoseAPair, PairKept, Configured, Describes
  <2>4. Knows(p)'
    BY <1>2, <1>1, <2>1, <2>2
    DEF Knows, PolicyLock, Roles, PreviousKnown, CommitIsStaged, PublishedBeforeUnjournal,
        OldPairPublished, Restored, Describes
  <2>5. QED BY <2>1, <2>3, <2>4, OwnStepKeeps
<1>5. QED BY <1>3, <1>4

\* Removing the journal once location.ini says what it said, and returning.
LEMMA FinishSteps ==
  ASSUME IInv, TypeOK', NEW p \in Proc, remove_journal(p) \/ finish(p)
  PROVE  IInv'
<1>1. /\ pc[p] \in {"unjournal", "finish"} /\ UNCHANGED <<conf, ini>>
      /\ conf \in Loc => Describes(ini, conf)
  BY DEF remove_journal, finish, files, IInv, Knows, PublishedBeforeUnjournal, Configured
<1>2. OnlySlipsLoseAPair'
  BY <1>1 DEF OnlySlipsLoseAPair, PairKept, Configured, Describes
<1>3. CASE remove_journal(p)
  <2>1. OwnStep(p) /\ pc'[p] = "finish" /\ UNCHANGED plock
    BY <1>1, <1>3, StepIsOwn DEF remove_journal, local, Step, Outside
  <2>2. Knows(p)'
    BY <1>1, <2>1
    DEF Knows, PolicyLock, Roles, PreviousKnown, CommitIsStaged, PublishedBeforeUnjournal,
        OldPairPublished, Restored, Configured, Describes
  <2>3. QED BY <1>2, <2>1, <2>2, OwnStepKeeps
<1>4. QED BY <1>1, <1>2, <1>3, EndKeeps DEF finish, Outside

\* Rolling back puts the old place back, whose metadata is still published
\* (rollback_location_update); a rollback that fails keeps the journal.
LEMMA RollbackSteps ==
  ASSUME IInv, TypeOK', NEW p \in Proc, rollback(p) \/ rollback_fails(p)
  PROVE  IInv'
<1>1. /\ pc[p] = "rollback" /\ conf = target[p] /\ UNCHANGED <<ini, pending>>
      /\ target[p] \in Loc \cup {NoLoc}
      /\ target[p] \in Loc => Describes(pending, target[p])
      /\ p \in Gui => target[p] \in Loc
      /\ slips = {} => (prev[p] \in Loc => \/ Describes(ini, prev[p])
                                           \/ target[p] = NoLoc /\ Describes(pending, prev[p]))
  BY ProcAssumption, LocAssumption
  DEF rollback, rollback_fails, IInv, TypeOK, Knows, Roles, CommitIsStaged,
      OldPairPublished, Proc
<1>2. CASE rollback(p)
  <2>1. conf' = prev[p] /\ UNCHANGED slips
    BY <1>2 DEF rollback, others
  <2>2. OnlySlipsLoseAPair'
    BY <1>1, <2>1 DEF OnlySlipsLoseAPair, PairKept, Configured, Describes
  <2>3. CASE target[p] = NoLoc
    BY <1>1, <1>2, <2>2, <2>3, EndKeeps DEF rollback, Outside
  <2>4. CASE target[p] # NoLoc
    <3>1. ToDiscard(p)
      BY <1>2, <2>4 DEF rollback
    <3>2. OwnStep(p) /\ pc'[p] = "discard"
      BY <1>1, <3>1, StepIsOwn DEF ToDiscard, local, Step, Outside
    <3>3. UNCHANGED <<target, prev>> /\ plock' = IF p \in Gui THEN NoProc ELSE plock
      BY <3>1 DEF ToDiscard, local
    <3>4. Knows(p)'
      BY <1>1, <2>1, <2>4, <3>2, <3>3, ProcAssumption
      DEF Knows, PolicyLock, Roles, PreviousKnown, CommitIsStaged, PublishedBeforeUnjournal,
          OldPairPublished, Restored, SamePlace, Configured, Describes
    <3>5. QED BY <2>2, <3>2, <3>4, OwnStepKeeps
  <2>5. QED BY <2>3, <2>4
<1>3. CASE rollback_fails(p)
  <2>1. slips' = {} => slips = {} /\ conf' = conf
    BY <1>3, NoteGrows DEF rollback_fails, Misreport, IInv, TypeOK
  <2>2. OnlySlipsLoseAPair'
    BY <1>1, <2>1, LocAssumption DEF OnlySlipsLoseAPair, PairKept, Configured, Describes
  <2>3. QED BY <1>1, <1>3, <2>2, EndKeeps DEF rollback_fails, Outside
<1>4. QED BY <1>2, <1>3

\* Dropping the stage loses nothing: the place the policy holds is published
\* (ss_location_metadata_discard_staged).
LEMMA DiscardStep ==
  ASSUME IInv, TypeOK', NEW p \in Proc, discard_staged(p)
  PROVE  IInv'
<1>1. /\ pc[p] = "discard" /\ UNCHANGED <<conf, ini, slips>>
      /\ slips = {} => (Configured(conf) => Describes(ini, conf))
  BY DEF discard_staged, others, IInv, Knows, OldPairPublished
<1>2. OnlySlipsLoseAPair'
  BY <1>1 DEF OnlySlipsLoseAPair, PairKept, Configured, Describes
<1>3. QED BY <1>1, <1>2, EndKeeps DEF discard_staged, Outside

\* Recovery publishes the journal of the committed place, and drops only a
\* journal that the committed place does not need (ss_location_metadata_recover).
LEMMA RecoverySteps ==
  ASSUME IInv, TypeOK', NEW p \in Proc, Recovery(p), ~recover(p)
  PROVE  IInv'
<1>1. pc[p] \in {"recover", "recover_clear"} /\ UNCHANGED <<conf, slips>>
  BY DEF Recovery, recover_reads_fail, recover_completes, recover_complete_fails,
         recover_discards, recover_discard_fails, recover_clears, recover_finds_nothing,
         files, others
<1>2. Configured(conf) /\ slips = {} => Describes(ini, conf) \/ Describes(pending, conf)
  BY DEF IInv, OnlySlipsLoseAPair, PairKept
<1>3. CASE recover_completes(p)
  <2>1. OwnStep(p) /\ pc'[p] = "unjournal" /\ UNCHANGED plock
    BY <1>1, <1>3, StepIsOwn DEF recover_completes, local, Step, Outside
  <2>2. Describes(ini', conf')
    BY <1>1, <1>3 DEF recover_completes, Completes, Describes
  <2>3. OnlySlipsLoseAPair'
    BY <2>2 DEF OnlySlipsLoseAPair, PairKept
  <2>4. plock # p
    BY <1>1 DEF IInv, Knows, PolicyLock
  <2>5. Knows(p)'
    BY <2>1, <2>2, <2>4
    DEF Knows, PolicyLock, Roles, PreviousKnown, CommitIsStaged, PublishedBeforeUnjournal,
        OldPairPublished, Restored
  <2>6. QED BY <2>1, <2>3, <2>5, OwnStepKeeps
<1>4. CASE recover_complete_fails(p)
  <2>1. Describes(pending, conf) /\ UNCHANGED pending
    BY <1>4 DEF recover_complete_fails, Completes
  <2>2. OnlySlipsLoseAPair'
    BY <1>1, <2>1 DEF OnlySlipsLoseAPair, PairKept, Describes
  <2>3. QED BY <1>1, <1>4, <2>2, EndKeeps DEF recover_complete_fails, Outside
<1>5. CASE recover_discards(p) \/ recover_discard_fails(p)
  <2>1. ~Describes(pending, conf) /\ UNCHANGED ini
    BY <1>5 DEF recover_discards, recover_discard_fails, Completes
  <2>2. OnlySlipsLoseAPair'
    BY <1>1, <1>2, <2>1 DEF OnlySlipsLoseAPair, PairKept, Configured, Describes
  <2>3. CASE recover_discards(p) /\ ~Configured(conf)
    <3>1. OwnStep(p) /\ pc'[p] = "recover_clear" /\ UNCHANGED <<plock, target, prev>>
      BY <1>1, <2>3, StepIsOwn DEF recover_discards, local, Step, Outside
    <3>2. plock # p /\ p \in Gui /\ prev[p] = Unread
      BY <1>1 DEF IInv, Knows, PolicyLock, Roles, PreviousKnown
    <3>3. Knows(p)'
      BY <1>1, <2>3, <3>1, <3>2
      DEF Knows, PolicyLock, Roles, PreviousKnown, CommitIsStaged, PublishedBeforeUnjournal,
          OldPairPublished, Restored, Configured
    <3>4. QED BY <2>2, <3>1, <3>3, OwnStepKeeps
  <2>4. QED
    BY <1>1, <1>5, <2>2, <2>3, EndKeeps DEF recover_discards, recover_discard_fails, Outside
<1>6. CASE recover_clears(p)
  <2>1. ~Configured(conf)
    BY <1>6 DEF recover_clears, IInv, Knows, PublishedBeforeUnjournal
  <2>2. OnlySlipsLoseAPair'
    BY <1>1, <2>1 DEF OnlySlipsLoseAPair, PairKept, Configured
  <2>3. QED BY <1>1, <1>6, <2>2, EndKeeps DEF recover_clears, Outside
<1>7. CASE recover_reads_fail(p) \/ recover_finds_nothing(p)
  <2>1. UNCHANGED <<ini, pending>>
    BY <1>7 DEF recover_reads_fail, recover_finds_nothing, files
  <2>2. OnlySlipsLoseAPair'
    BY <1>1, <1>2, <2>1 DEF OnlySlipsLoseAPair, PairKept, Configured, Describes
  <2>3. QED
    BY <1>1, <1>7, <2>2, EndKeeps DEF recover_reads_fail, recover_finds_nothing, Outside
<1>8. QED BY <1>3, <1>4, <1>5, <1>6, <1>7 DEF Recovery

\* A process may die anywhere: the files stay, and the pair with them.
LEMMA CrashStep ==
  ASSUME IInv, TypeOK', NEW p \in Proc, Crash(p)
  PROVE  IInv'
<1>1. /\ UNCHANGED <<conf, ini, pending, slips>>
      /\ pc'[p] = "idle" /\ prev'[p] = Unread /\ plock' # p
      /\ llock' = IF llock = p THEN NoProc ELSE llock
      /\ \A q \in Proc : q # p => /\ pc'[q] = pc[q] /\ target'[q] = target[q]
                                  /\ prev'[q] = prev[q] /\ (plock' = q <=> plock = q)
  BY ProcAssumption DEF Crash, IInv, TypeOK, Goto, files, others
<1>2. OnlySlipsLoseAPair'
  BY <1>1 DEF IInv, OnlySlipsLoseAPair, PairKept, Configured, Describes
<1>3. LocalityLock'
  BY <1>1, ProcAssumption DEF IInv, LocalityLock, Outside
<1>4. ASSUME NEW q \in Proc, q # p PROVE Knows(q)'
  BY <1>1, <1>4, Frame DEF IInv
<1>5. Knows(p)'
  BY <1>1
  DEF Knows, PolicyLock, Roles, PreviousKnown, CommitIsStaged, PublishedBeforeUnjournal,
      OldPairPublished, Restored
<1>6. QED BY <1>2, <1>3, <1>4, <1>5 DEF IInv

\* Another setter creates the policy file only while nobody holds
\* presentation.lock, and a missing policy and an unset place are the same place.
LEMMA SetterStep ==
  ASSUME IInv, TypeOK', OtherSetter
  PROVE  IInv'
<1>1. /\ conf = Absent /\ plock = NoProc /\ conf' = NoLoc
      /\ UNCHANGED <<ini, pending, slips, llock, plock, pc, target, prev>>
  BY DEF OtherSetter, others, local
<1>2. OnlySlipsLoseAPair'
  BY <1>1, LocAssumption DEF OnlySlipsLoseAPair, PairKept, Configured
<1>3. LocalityLock'
  BY <1>1 DEF IInv, LocalityLock
<1>4. ASSUME NEW q \in Proc PROVE Knows(q)'
  <2>1. /\ pc[q] \notin {"load_policy", "save", "publish", "rollback"}
        /\ pc[q] = "stage" => q \in Gui
    BY <1>1, ProcAssumption DEF IInv, Knows, PolicyLock, Proc
  <2>2. pc[q] = "discard" /\ prev[q] # Unread /\ "misreported" \notin slips =>
          SamePlace(NoLoc, prev[q])
    BY <1>1 DEF IInv, Knows, Restored, SamePlace
  <2>3. QED
    BY <1>1, <2>1, <2>2, LocAssumption
    DEF IInv, Knows, PolicyLock, Roles, PreviousKnown, CommitIsStaged,
        PublishedBeforeUnjournal, OldPairPublished, Restored, Configured
<1>5. QED BY <1>2, <1>3, <1>4 DEF IInv

-----------------------------------------------------------------------------
(***************************************************************************)
(* The theorems.                                                           *)
(***************************************************************************)
\* Every step keeps the inductive invariant.
LEMMA InvStep == IInv /\ [Next]_vars => IInv'
<1> SUFFICES ASSUME IInv, [Next]_vars PROVE IInv'
  OBVIOUS
<1> TypeOK'
  BY TypeStep DEF IInv, Knows
<1>1. ASSUME NEW p \in Proc, Transaction(p) PROVE IInv'
  BY <1>1, EntrySteps, ReloadSteps, StageSteps, LoadSteps, SaveSteps, PublishSteps,
     FinishSteps, RollbackSteps, DiscardStep
  DEF Transaction
<1>2. ASSUME NEW p \in Proc, Recovery(p) PROVE IInv'
  BY <1>2, EntrySteps, RecoverySteps
<1>3. ASSUME NEW p \in Proc, Crash(p) PROVE IInv'
  BY <1>3, CrashStep
<1>4. CASE OtherSetter
  BY <1>4, SetterStep
<1>5. CASE ZoneChange \/ UNCHANGED vars
  <2>1. UNCHANGED <<conf, ini, pending, slips, llock, plock, pc, target, prev>>
    BY <1>5 DEF ZoneChange, files, local, vars
  <2>2. \A q \in Proc : Knows(q)'
    BY <2>1, Frame DEF IInv
  <2>3. QED
    BY <2>1, <2>2
    DEF IInv, LocalityLock, OnlySlipsLoseAPair, PairKept, Configured, Describes
<1>6. QED BY <1>1, <1>2, <1>3, <1>4, <1>5 DEF Next

\* The inductive invariant holds throughout every behaviour.
THEOREM Invariance == Spec => []IInv
BY InvInit, InvStep, PTL DEF Spec

\* The files and the locks keep their types: what is staged is always a record
\* and what a rollback writes is always a policy that was read.
THEOREM TypeCorrect == Spec => []TypeOK
<1>1. IInv => TypeOK
  BY DEF IInv
<1>2. QED BY <1>1, Invariance, PTL

\* A configured place always has its metadata in location.ini or in the journal,
\* unless a pending journal was overwritten or a write that took effect was
\* reported as failed, whoever dies wherever (on_location_result_activated).
THEOREM PairRecoverable == Spec => []OnlySlipsLoseAPair
<1>1. IInv => OnlySlipsLoseAPair
  BY DEF IInv
<1>2. QED BY <1>1, Invariance, PTL

\* After a rollback the policy holds the place the transaction found
\* (rollback_location_update).
THEOREM RollbackRestores == Spec => []RollbackExact
<1>1. IInv => RollbackExact
  BY DEF IInv, Knows, Restored, RollbackExact
<1>2. QED BY <1>1, Invariance, PTL

\* Every step that makes location.ini a record writes one of the policy's place:
\* a transaction publishes its stage after the commit, a recovery has compared.
LEMMA PublishedDescribes ==
  ASSUME TypeOK, \A p \in Proc : CommitIsStaged(p), Next, ini' # ini, ini' \in Metadata
  PROVE  Describes(ini', conf')
<1>1. ASSUME NEW p \in Proc, publish(p) \/ publish_fails(p) PROVE Describes(ini', conf')
  <2>1. /\ ini' = Published(p) /\ UNCHANGED conf
        /\ pc[p] = "publish"
    BY <1>1, FailedEither DEF publish, publish_fails
  <2>2. target[p] # NoLoc
    BY <2>1, FileAssumption DEF Published
  <2>3. conf = target[p] /\ Describes(pending, target[p])
    BY <2>1, <2>2 DEF TypeOK, CommitIsStaged
  <2>4. QED BY <2>1, <2>2, <2>3 DEF Published
<1>2. ASSUME NEW p \in Proc, recover_completes(p) \/ recover_complete_fails(p)
      PROVE Describes(ini', conf')
  BY <1>2, FailedEither DEF recover_completes, recover_complete_fails, Completes
<1>3. ASSUME NEW p \in Proc, recover_clears(p) PROVE FALSE
  BY <1>3, FileAssumption DEF recover_clears
<1>4. QED
  BY <1>1, <1>2, <1>3
  DEF Next, Transaction, Recovery, ChoosePlace, transaction_begin, transaction_begin_fails,
      load_authoritative_location_metadata, load_authoritative_location_metadata_fails,
      stage, stage_fails, begin_update, begin_update_fails, load_policy,
      load_policy_fails, save, save_fails, remove_journal, finish, rollback,
      rollback_fails, discard_staged, recover, recover_reads_fail, recover_discards,
      recover_discard_fails, recover_finds_nothing, Crash, OtherSetter, ZoneChange, files

\* location.ini never starts to describe a place the policy does not hold
\* (ss_location_metadata_finish_staged, ss_location_metadata_recover).
THEOREM PublicationFollowsCommit == Spec => MetadataFollowsPolicy
<1>1. IInv /\ [Next]_vars =>
        [ini' # ini /\ ini' \in Metadata => Describes(ini', conf')]_vars
  BY PublishedDescribes DEF IInv, Knows
<1>2. QED BY <1>1, Invariance, PTL DEF Spec, MetadataFollowsPolicy

-----------------------------------------------------------------------------
(***************************************************************************)
(* Reconciliation.  Reference coordinates have no metadata, so a policy    *)
(* that only follows the time zone breaks the pair and IInv is not         *)
(* invariant here.  What is left of it is what each process knows of the   *)
(* locks and of its own stage (Protocol), and a reconciliation is one more *)
(* way to be inside location.lock.                                         *)
(***************************************************************************)
Protocol(p) == PolicyLock(p) /\ Roles(p) /\ PreviousKnown(p) /\ CommitIsStaged(p)

ReconcileStep == {"idle", "lock", "read", "save_zone", "publish_reference"}

ReconcileTypeOK ==
  /\ TypeOK
  /\ rpc \in [Gui -> ReconcileStep]
  /\ seen \in [Gui -> Zone]

\* A window that reconciles under location.lock.
Reconciling(p) == p \in Gui /\ rpc[p] \in {"read", "save_zone", "publish_reference"}

\* location.lock is held exactly inside a transaction, a recovery or a reconciliation.
ReconcileLock == \A p \in Proc : llock = p <=> (pc[p] \notin Outside \/ Reconciling(p))

\* A window runs one handler at a time.
OneHandler == \A p \in Gui : rpc[p] = "idle" \/ pc[p] = "idle"

\* What the reading under the lock has found still holds when it is acted on.
FindingHolds ==
  \A p \in Gui :
    /\ rpc[p] = "publish_reference" => ~Configured(conf)
    /\ rpc[p] = "save_zone" => Configured(conf) /\ (ini = Corrupt \/ Describes(ini, conf))

ReconcileInv ==
  /\ ReconcileTypeOK
  /\ ReconcileLock
  /\ OneHandler
  /\ FindingHolds
  /\ \A p \in Proc : Protocol(p)

\* Every initial state satisfies it.
LEMMA ReconcileInvInit == ReconcileInit => ReconcileInv
<1> SUFFICES ASSUME ReconcileInit PROVE ReconcileInv
  OBVIOUS
<1>1. IInv
  BY InvInit DEF ReconcileInit
<1>2. \A p \in Gui : rpc[p] = "idle"
  BY DEF ReconcileInit
<1>3. ReconcileTypeOK
  BY <1>1 DEF IInv, TypeOK, ReconcileInit, ReconcileTypeOK, ReconcileStep
<1>4. ReconcileLock
  BY <1>1, <1>2 DEF IInv, LocalityLock, ReconcileLock, Reconciling
<1>5. OneHandler /\ FindingHolds
  BY <1>2 DEF OneHandler, FindingHolds
<1>6. QED BY <1>1, <1>3, <1>4, <1>5 DEF IInv, Knows, Protocol, ReconcileInv

\* What a step of the journal leaves alone: the other processes' program state,
\* the policy lock of others, and outside the lock every file.
LEMMA MoveFrame ==
  ASSUME TypeOK, NEW p \in Proc, Transaction(p) \/ Recovery(p) \/ Crash(p)
  PROVE  /\ \A q \in Proc : q # p => /\ pc'[q] = pc[q] /\ target'[q] = target[q]
                                     /\ prev'[q] = prev[q] /\ (plock' = q => plock = q)
         /\ pc[p] \in Outside =>
              /\ UNCHANGED files
              /\ plock' = plock \/ plock = p
              /\ \/ pc'[p] \in Outside /\ llock' \in {llock, IF llock = p THEN NoProc ELSE llock}
                 \/ pc'[p] \notin Outside /\ llock = NoProc /\ llock' = p
         /\ pc[p] \notin Outside =>
              \/ pc'[p] \in Outside /\ llock' \in {NoProc, IF llock = p THEN NoProc ELSE llock}
              \/ pc'[p] \notin Outside /\ llock' = llock
<1> USE ProcAssumption DEF TypeOK, Goto, files, local, others, Outside
<1>1. CASE Transaction(p)
  <2>1. CASE ChoosePlace(p) \/ transaction_begin(p) \/ transaction_begin_fails(p)
    BY <2>1 DEF ChoosePlace, transaction_begin, transaction_begin_fails
  <2>2. CASE load_authoritative_location_metadata(p)
             \/ load_authoritative_location_metadata_fails(p)
    BY <2>2 DEF load_authoritative_location_metadata,
                load_authoritative_location_metadata_fails, End
  <2>3. CASE stage(p) \/ stage_fails(p)
    BY <2>3 DEF stage, stage_fails, End
  <2>4. CASE begin_update(p) \/ begin_update_fails(p)
    BY <2>4 DEF begin_update, begin_update_fails, End
  <2>5. CASE load_policy(p) \/ load_policy_fails(p)
    BY <2>5 DEF load_policy, load_policy_fails, End, ToDiscard
  <2>6. CASE save(p) \/ save_fails(p)
    BY <2>6 DEF save, save_fails, End, ToDiscard
  <2>7. CASE publish(p) \/ publish_fails(p)
    BY <2>7 DEF publish, publish_fails
  <2>8. CASE remove_journal(p) \/ finish(p) \/ discard_staged(p)
    BY <2>8 DEF remove_journal, finish, discard_staged, End
  <2>9. CASE rollback(p) \/ rollback_fails(p)
    BY <2>9 DEF rollback, rollback_fails, End, ToDiscard
  <2>10. QED
    BY <1>1, <2>1, <2>2, <2>3, <2>4, <2>5, <2>6, <2>7, <2>8, <2>9 DEF Transaction
<1>2. CASE Recovery(p)
  <2>1. CASE recover(p) \/ recover_reads_fail(p) \/ recover_finds_nothing(p)
    BY <2>1 DEF recover, recover_reads_fail, recover_finds_nothing, End
  <2>2. CASE recover_completes(p) \/ recover_complete_fails(p)
    BY <2>2 DEF recover_completes, recover_complete_fails, End
  <2>3. CASE recover_discards(p) \/ recover_discard_fails(p)
    BY <2>3 DEF recover_discards, recover_discard_fails, End
  <2>4. CASE recover_clears(p)
    BY <2>4 DEF recover_clears, End
  <2>5. QED BY <1>2, <2>1, <2>2, <2>3, <2>4 DEF Recovery
<1>3. CASE Crash(p)
  BY <1>3 DEF Crash
<1>4. QED BY <1>1, <1>2, <1>3

\* A process keeps its own side of the protocol.
LEMMA OwnProtocol ==
  ASSUME TypeOK, TypeOK', NEW p \in Proc, Protocol(p),
         Transaction(p) \/ Recovery(p) \/ Crash(p)
  PROVE  Protocol(p)'
<1> USE ProcAssumption
    DEF Protocol, PolicyLock, Roles, PreviousKnown, CommitIsStaged, Goto, files, local,
        others, Proc
<1>0. ASSUME pc' = [pc EXCEPT ![p] = "idle"], prev' = [prev EXCEPT ![p] = Unread],
             plock' # p
      PROVE  Protocol(p)'
  BY <1>0 DEF TypeOK
<1>1. ASSUME End(p) PROVE Protocol(p)'
  BY <1>0, <1>1 DEF End
<1>2. CASE Transaction(p)
  <2>1. CASE ChoosePlace(p) \/ transaction_begin(p) \/ transaction_begin_fails(p)
    BY <2>1 DEF ChoosePlace, transaction_begin, transaction_begin_fails, TypeOK
  <2>2. CASE load_authoritative_location_metadata(p)
             \/ load_authoritative_location_metadata_fails(p)
    BY <1>1, <2>2 DEF load_authoritative_location_metadata,
                load_authoritative_location_metadata_fails, TypeOK
  <2>3. CASE stage(p)
    <3>1. target[p] \in Loc /\ Describes(pending', target[p])
      BY <2>3, CandidateType DEF stage
    <3>2. QED BY <2>3, <3>1 DEF stage, TypeOK
  <2>4. CASE begin_update(p) \/ begin_update_fails(p)
    BY <1>1, <2>4 DEF begin_update, begin_update_fails, TypeOK
  <2>5. CASE load_policy(p) \/ load_policy_fails(p)
    BY <1>1, <2>5, LocAssumption DEF load_policy, load_policy_fails, ToDiscard, TypeOK
  <2>6. CASE save(p) \/ save_fails(p)
    BY <1>1, <2>6, LocAssumption DEF save, save_fails, ToDiscard, TypeOK
  <2>7. CASE publish(p) \/ publish_fails(p)
    BY <2>7 DEF publish, publish_fails, TypeOK
  <2>8. CASE remove_journal(p)
    BY <2>8 DEF remove_journal, TypeOK
  <2>9. CASE rollback(p)
    BY <1>1, <2>9, LocAssumption DEF rollback, ToDiscard, TypeOK
  <2>10. QED
    BY <1>1, <1>2, <2>1, <2>2, <2>3, <2>4, <2>5, <2>6, <2>7, <2>8, <2>9
    DEF Transaction, stage_fails, finish, rollback_fails, discard_staged
<1>3. CASE Recovery(p)
  <2>1. CASE recover(p)
    BY <2>1 DEF recover, TypeOK
  <2>2. CASE recover_completes(p)
    BY <2>2 DEF recover_completes, TypeOK
  <2>3. CASE recover_discards(p)
    BY <1>1, <2>3 DEF recover_discards, TypeOK
  <2>4. QED
    BY <1>1, <1>3, <2>1, <2>2, <2>3
    DEF Recovery, recover_reads_fail, recover_complete_fails, recover_discard_fails,
        recover_clears, recover_finds_nothing
<1>4. CASE Crash(p)
  BY <1>0, <1>4 DEF Crash
<1>5. QED BY <1>2, <1>3, <1>4

\* A process outside has no stake in the files.
LEMMA OutsideProtocol ==
  ASSUME NEW q \in Proc, Protocol(q), pc[q] \in Outside,
         pc'[q] = pc[q], target'[q] = target[q], prev'[q] = prev[q],
         plock' = q => plock = q
  PROVE  Protocol(q)'
BY DEF Protocol, PolicyLock, Roles, PreviousKnown, CommitIsStaged, Outside

\* Where the files and the lock stay, so does what a process knows of them.
LEMMA ProtocolFrame ==
  ASSUME NEW q \in Proc, Protocol(q), UNCHANGED files,
         pc'[q] = pc[q], target'[q] = target[q], prev'[q] = prev[q],
         plock' = q <=> plock = q
  PROVE  Protocol(q)'
BY DEF Protocol, PolicyLock, Roles, PreviousKnown, CommitIsStaged, Describes, files

\* A step of a transaction or a recovery meets no reconciliation inside the lock.
LEMMA JournalKeeps ==
  ASSUME ReconcileInv, NEW p \in Proc, JournalStep(p)
  PROVE  ReconcileInv'
<1>1. /\ Transaction(p) \/ Recovery(p) \/ Crash(p)
      /\ ~Reconciling(p)
      /\ UNCHANGED <<rpc, seen>>
      /\ p \in Gui => rpc[p] = "idle"
  BY DEF JournalStep, Reconciling
<1>2. TypeOK /\ Protocol(p) /\ (llock = p <=> pc[p] \notin Outside)
  BY <1>1 DEF ReconcileInv, ReconcileTypeOK, ReconcileLock
<1>3. TypeOK'
  <2>1. Next
    BY <1>1 DEF Next
  <2>2. QED BY <1>2, <2>1, TypeStep DEF ReconcileInv, Protocol
<1>4. ReconcileTypeOK'
  BY <1>1, <1>3 DEF ReconcileInv, ReconcileTypeOK
<1>5. \A q \in Proc : q # p => /\ pc'[q] = pc[q] /\ target'[q] = target[q]
                               /\ prev'[q] = prev[q] /\ (plock' = q => plock = q)
  BY <1>1, <1>2, MoveFrame
<1>6. ReconcileLock'
  <2>1. CASE pc[p] \in Outside
    <3>1. \/ pc'[p] \in Outside /\ llock' = llock
          \/ pc'[p] \notin Outside /\ llock = NoProc /\ llock' = p
      BY <1>1, <1>2, <2>1, MoveFrame
    <3>2. QED
      BY <1>1, <1>2, <1>5, <2>1, <3>1, ProcAssumption
      DEF ReconcileInv, ReconcileLock, Reconciling
  <2>2. CASE pc[p] \notin Outside
    <3>1. \/ pc'[p] \in Outside /\ llock' = NoProc
          \/ pc'[p] \notin Outside /\ llock' = llock
      BY <1>1, <1>2, <2>2, MoveFrame
    <3>2. QED
      BY <1>1, <1>2, <1>5, <2>2, <3>1, ProcAssumption
      DEF ReconcileInv, ReconcileLock, Reconciling
  <2>3. QED BY <2>1, <2>2
<1>7. OneHandler'
  BY <1>1, <1>5 DEF ReconcileInv, OneHandler, Proc
<1>8. FindingHolds'
  <2> SUFFICES ASSUME NEW g \in Gui, rpc[g] \in {"save_zone", "publish_reference"}
               PROVE  UNCHANGED files
    BY <1>1 DEF ReconcileInv, FindingHolds, Describes, files
  <2>1. llock = g /\ g # p
    BY <1>1 DEF ReconcileInv, ReconcileLock, Reconciling, Proc
  <2>2. QED BY <1>1, <1>2, <2>1, MoveFrame
<1>9. ASSUME NEW q \in Proc PROVE Protocol(q)'
  <2>1. CASE q = p
    BY <1>1, <1>2, <1>3, <2>1, OwnProtocol
  <2>2. CASE q # p /\ pc[p] \notin Outside
    <3>1. pc[q] \in Outside
      BY <1>2, <2>2 DEF ReconcileInv, ReconcileLock
    <3>2. QED BY <1>5, <2>2, <3>1, OutsideProtocol DEF ReconcileInv
  <2>3. CASE q # p /\ pc[p] \in Outside
    <3>1. UNCHANGED files /\ plock' = plock
      <4>1. plock # p
        BY <1>2, <2>3 DEF Protocol, PolicyLock, Outside
      <4>2. QED BY <1>1, <1>2, <2>3, <4>1, MoveFrame
    <3>2. QED BY <1>5, <2>3, <3>1, ProtocolFrame DEF ReconcileInv
  <2>4. QED BY <2>1, <2>2, <2>3
<1>10. QED BY <1>4, <1>6, <1>7, <1>8, <1>9 DEF ReconcileInv

\* A policy that follows the zone and is not at its reference is not configured
\* (refresh_location_authority_state).
LEMMA FollowingIsUnset ==
  ASSUME NEW f \in MayFollow(conf, zone), f, conf # Ref[zone]
  PROVE  ~Configured(conf)
BY Zenon DEF MayFollow

\* What makes the metadata worth rewriting: the place is configured, and the
\* record describes it or cannot be read.
LEMMA RewriteIsDescribed ==
  ASSUME TypeOK, NEW r \in MayNeedZone, r
  PROVE  Configured(conf) /\ (ini = Corrupt \/ Describes(ini, conf))
<1>1. CASE ini = Corrupt
  BY <1>1, Zenon DEF MayNeedZone
<1>2. CASE ini # Corrupt
  <2>1. Describes(ini, conf)
    BY <1>2, Zenon DEF MayNeedZone
  <2>2. Configured(conf)
    BY <2>1 DEF Describes, Configured, Metadata
  <2>3. QED BY <2>1, <2>2
<1>3. QED BY <1>1, <1>2

\* The record written for the new zone describes the configured place.
LEMMA SavedZoneDescribes ==
  ASSUME ReconcileInv, NEW p \in Gui, reconcile_saves_zone(p)
  PROVE  conf' = conf /\ (ini' # ini => ini' \in Metadata /\ Describes(ini', conf))
<1> DEFINE m == [at |-> IF ini = Corrupt THEN conf ELSE ini.at, zone |-> seen[p]]
<1>1. Configured(conf) /\ (ini = Corrupt \/ Describes(ini, conf)) /\ seen[p] \in Zone
  BY DEF ReconcileInv, ReconcileTypeOK, FindingHolds, reconcile_saves_zone
<1>2. m \in Metadata /\ m.at = conf
  BY <1>1 DEF Metadata, Configured, Describes
<1>3. ini' = ini \/ ini' = m
  BY FailedEither DEF reconcile_saves_zone
<1>4. QED BY <1>2, <1>3 DEF reconcile_saves_zone, Describes

\* What a step of a reconciliation inside the lock does: it ends, or it has
\* read what FindingHolds says.
LEMMA InsideStep ==
  ASSUME ReconcileInv, NEW p \in Gui, Reconciling(p), Reconcile(p) \/ CrashReconciling(p)
  PROVE  /\ UNCHANGED <<pending, plock, pc, target, prev, zone, slips>>
         /\ seen' \in [Gui -> Zone]
         /\ \/ llock' = NoProc /\ rpc' = [rpc EXCEPT ![p] = "idle"]
            \/ /\ UNCHANGED <<llock, conf, ini>>
               /\ \/ rpc' = [rpc EXCEPT ![p] = "publish_reference"] /\ ~Configured(conf)
                  \/ /\ rpc' = [rpc EXCEPT ![p] = "save_zone"]
                     /\ Configured(conf) /\ (ini = Corrupt \/ Describes(ini, conf))
         /\ conf' \in Loc \cup {NoLoc, Absent}
         /\ ini' \in Metadata \cup {Missing, Corrupt}
<1> USE DEF RGoto, Unlock, files, others, local
<1>1. /\ rpc[p] \in {"read", "save_zone", "publish_reference"}
      /\ llock = p
      /\ conf \in Loc \cup {NoLoc, Absent}
      /\ ini \in Metadata \cup {Missing, Corrupt}
      /\ zone \in Zone
      /\ seen \in [Gui -> Zone]
      /\ TypeOK
  BY DEF Reconciling, ReconcileInv, ReconcileTypeOK, TypeOK, ReconcileLock, Proc
<1>2. CASE reconcile_reads(p)
  <2>1. PICK f \in MayFollow(conf, zone), rewrite \in MayNeedZone :
          \/ rewrite /\ RGoto(p, "save_zone") /\ UNCHANGED llock
          \/ f /\ conf # Ref[zone] /\ RGoto(p, "publish_reference") /\ UNCHANGED llock
          \/ Unlock(p)
    BY <1>2, Zenon DEF reconcile_reads
  <2>2. /\ UNCHANGED <<conf, ini, pending, plock, pc, target, prev, zone, slips>>
        /\ seen' \in [Gui -> Zone]
    BY <1>1, <1>2 DEF reconcile_reads
  <2>3. CASE rewrite /\ RGoto(p, "save_zone") /\ UNCHANGED llock
    BY <1>1, <2>2, <2>3, RewriteIsDescribed
  <2>4. CASE f /\ conf # Ref[zone] /\ RGoto(p, "publish_reference") /\ UNCHANGED llock
    BY <1>1, <2>2, <2>4, FollowingIsUnset
  <2>5. CASE Unlock(p)
    BY <1>1, <2>2, <2>5
  <2>6. QED BY <2>1, <2>3, <2>4, <2>5
<1>3. CASE reconcile_read_fails(p)
  BY <1>1, <1>3 DEF reconcile_read_fails
<1>4. CASE reconcile_saves_zone(p)
  BY <1>1, <1>4, SavedZoneDescribes DEF reconcile_saves_zone
<1>5. CASE reconcile_publishes_reference(p)
  BY <1>1, <1>5, RefAssumption DEF reconcile_publishes_reference
<1>6. CASE reconcile_publication_fails(p)
  <2>1. conf' = conf \/ conf' = Ref[seen[p]]
    BY <1>6, FailedEither DEF reconcile_publication_fails
  <2>2. QED BY <1>1, <1>6, <2>1, RefAssumption DEF reconcile_publication_fails
<1>7. CASE CrashReconciling(p)
  BY <1>1, <1>7 DEF CrashReconciling
<1>8. QED
  BY <1>1, <1>2, <1>3, <1>4, <1>5, <1>6, <1>7
  DEF Reconcile, reconcile_system_time_change, reconcile_locks, reconcile_lock_fails

\* What a window does outside the lock, and taking it.
LEMMA OutsideStep ==
  ASSUME ReconcileInv, NEW p \in Gui, ~Reconciling(p),
         Reconcile(p) \/ CrashReconciling(p) \/ refresh_location_authority_state(p)
                      \/ system_time_operation_applied(p)
  PROVE  /\ UNCHANGED <<conf, ini, pending, plock, pc, target, prev, slips>>
         /\ zone' \in Zone
         /\ seen' \in [Gui -> Zone]
         /\ pc[p] = "idle"
         /\ \/ llock' = llock /\ \E to \in {"idle", "lock"} : rpc' = [rpc EXCEPT ![p] = to]
            \/ llock = NoProc /\ llock' = p /\ rpc' = [rpc EXCEPT ![p] = "read"]
<1> USE DEF RGoto, files, others, local
<1>1. /\ rpc[p] \in {"idle", "lock"}
      /\ rpc = [rpc EXCEPT ![p] = rpc[p]]
      /\ rpc[p] = "lock" => pc[p] = "idle"
      /\ zone \in Zone /\ seen \in [Gui -> Zone]
  BY DEF Reconciling, ReconcileInv, ReconcileTypeOK, ReconcileStep, TypeOK, OneHandler
<1>2. pc[p] = "idle" => llock # p
  BY DEF ReconcileInv, ReconcileLock, Outside, Proc
<1>3. CASE refresh_location_authority_state(p)
  BY <1>1, <1>3 DEF refresh_location_authority_state, vars
<1>4. CASE system_time_operation_applied(p)
  BY <1>1, <1>4 DEF system_time_operation_applied, ZoneChange
<1>5. CASE reconcile_system_time_change(p)
  BY <1>1, <1>5 DEF reconcile_system_time_change, vars
<1>6. CASE reconcile_locks(p)
  BY <1>1, <1>6 DEF reconcile_locks
<1>7. CASE reconcile_lock_fails(p)
  BY <1>1, <1>7 DEF reconcile_lock_fails, vars
<1>8. CASE CrashReconciling(p)
  BY <1>1, <1>2, <1>8 DEF CrashReconciling
<1>9. QED
  BY <1>1, <1>3, <1>4, <1>5, <1>6, <1>7, <1>8
  DEF Reconcile, reconcile_reads, reconcile_read_fails, reconcile_saves_zone,
      reconcile_publishes_reference, reconcile_publication_fails

\* A window that reconciles inside the lock is alone there, so nothing it writes
\* is anything another process relies on; outside it writes nothing.
LEMMA ReconcileKeeps ==
  ASSUME ReconcileInv, NEW p \in Gui,
         Reconcile(p) \/ CrashReconciling(p) \/ refresh_location_authority_state(p)
                      \/ system_time_operation_applied(p)
  PROVE  ReconcileInv'
<1> p \in Proc
  BY DEF Proc
<1>1. CASE Reconciling(p)
  <2>1. Reconcile(p) \/ CrashReconciling(p)
    BY <1>1
    DEF Reconciling, refresh_location_authority_state, system_time_operation_applied
  <2>2. /\ pc[p] = "idle"
        /\ llock = p
        /\ \A q \in Proc : pc[q] \in Outside /\ (q # p => ~Reconciling(q))
    BY <1>1 DEF ReconcileInv, ReconcileLock, OneHandler, Reconciling, Outside
  <2>3. ReconcileTypeOK'
    BY <1>1, <2>1, <2>2, InsideStep, ProcAssumption
    DEF ReconcileInv, ReconcileTypeOK, TypeOK, ReconcileStep
  <2>4. rpc \in [Gui -> ReconcileStep]
    BY DEF ReconcileInv, ReconcileTypeOK
  <2>5. \/ llock' = NoProc /\ ~Reconciling(p)'
        \/ llock' = p /\ Reconciling(p)'
    BY <1>1, <2>1, <2>2, <2>4, InsideStep DEF Reconciling
  <2>6. \A q \in Gui : q # p => rpc'[q] = rpc[q]
    BY <1>1, <2>1, <2>4, InsideStep
  <2>7. ReconcileLock'
    BY <1>1, <2>1, <2>2, <2>5, <2>6, InsideStep, ProcAssumption
    DEF ReconcileLock, Reconciling
  <2>8. OneHandler'
    BY <1>1, <2>1, <2>2, <2>6, InsideStep DEF ReconcileInv, OneHandler
  <2>9. FindingHolds'
    <3> SUFFICES ASSUME NEW g \in Gui
                 PROVE  /\ rpc'[g] = "publish_reference" => ~Configured(conf)'
                        /\ rpc'[g] = "save_zone" =>
                             (Configured(conf) /\ (ini = Corrupt \/ Describes(ini, conf)))'
      BY DEF FindingHolds
    <3>1. CASE g = p
      BY <1>1, <2>1, <2>4, <3>1, InsideStep DEF Configured, Describes
    <3>2. CASE g # p
      BY <2>2, <2>6, <3>2 DEF Reconciling, Proc
    <3>3. QED BY <3>1, <3>2
  <2>10. \A q \in Proc : Protocol(q)'
    BY <1>1, <2>1, <2>2, InsideStep, OutsideProtocol DEF ReconcileInv
  <2>11. QED BY <2>3, <2>7, <2>8, <2>9, <2>10 DEF ReconcileInv
<1>2. CASE ~Reconciling(p)
  <2>1. rpc \in [Gui -> ReconcileStep]
    BY DEF ReconcileInv, ReconcileTypeOK
  <2>2. /\ \A q \in Gui : q # p => rpc'[q] = rpc[q]
        /\ \/ llock' = llock /\ rpc'[p] \in {"idle", "lock"}
           \/ llock = NoProc /\ llock' = p /\ rpc'[p] = "read"
    BY <1>2, <2>1, OutsideStep
  <2>3. ReconcileTypeOK'
    BY <1>2, <2>1, OutsideStep DEF ReconcileInv, ReconcileTypeOK, TypeOK, ReconcileStep
  <2>4. ReconcileLock'
    BY <1>2, <2>2, OutsideStep, ProcAssumption
    DEF ReconcileInv, ReconcileLock, Reconciling, Outside
  <2>5. OneHandler'
    BY <1>2, <2>2, OutsideStep DEF ReconcileInv, OneHandler
  <2>6. FindingHolds'
    BY <1>2, <2>2, OutsideStep DEF ReconcileInv, FindingHolds, Configured, Describes
  <2>7. UNCHANGED files
    BY <1>2, OutsideStep DEF files
  <2>8. \A q \in Proc : Protocol(q)'
    BY <1>2, <2>7, OutsideStep, ProtocolFrame DEF ReconcileInv
  <2>9. QED BY <2>3, <2>4, <2>5, <2>6, <2>8 DEF ReconcileInv
<1>3. QED BY <1>1, <1>2

\* Every step keeps the invariant.
LEMMA ReconcileInvStep == ReconcileInv /\ [ReconcileNext]_allVars => ReconcileInv'
<1> SUFFICES ASSUME ReconcileInv, [ReconcileNext]_allVars PROVE ReconcileInv'
  OBVIOUS
<1>1. ASSUME NEW p \in Proc, JournalStep(p) PROVE ReconcileInv'
  BY <1>1, JournalKeeps
<1>2. ASSUME NEW p \in Gui, Reconcile(p) \/ CrashReconciling(p)
               \/ refresh_location_authority_state(p) \/ system_time_operation_applied(p)
      PROVE  ReconcileInv'
  BY <1>2, ReconcileKeeps
<1>3. CASE (OtherSetter \/ ZoneChange) /\ UNCHANGED <<panel, chosen>>
  <2>1. /\ UNCHANGED <<ini, pending, llock, plock, pc, target, prev, rpc, seen>>
        /\ \/ conf' = conf
           \/ conf = Absent /\ plock = NoProc /\ conf' = NoLoc
    BY <1>3 DEF OtherSetter, ZoneChange, files, others, local, panel
  <2>2. TypeOK'
    <3>1. Next
      BY <1>3 DEF Next
    <3>2. QED BY <3>1, TypeStep DEF ReconcileInv, ReconcileTypeOK, Protocol
  <2>3. ReconcileTypeOK' /\ ReconcileLock' /\ OneHandler'
    BY <2>1, <2>2
    DEF ReconcileInv, ReconcileTypeOK, ReconcileLock, Reconciling, OneHandler
  <2>4. FindingHolds'
    BY <2>1, LocAssumption DEF ReconcileInv, FindingHolds, Configured, Describes
  <2>5. ASSUME NEW q \in Proc PROVE Protocol(q)'
    <3>1. CASE conf' = conf
      BY <2>1, <3>1, ProtocolFrame DEF ReconcileInv, files
    <3>2. CASE plock = NoProc
      <4>1. /\ pc[q] \notin {"load_policy", "save", "publish", "rollback"}
            /\ pc[q] = "stage" => q \in Gui
        BY <3>2, ProcAssumption DEF ReconcileInv, Protocol, PolicyLock, Proc
      <4>2. QED
        BY <2>1, <4>1
        DEF ReconcileInv, Protocol, PolicyLock, Roles, PreviousKnown, CommitIsStaged
    <3>3. QED BY <2>1, <3>1, <3>2
  <2>6. QED BY <2>3, <2>4, <2>5 DEF ReconcileInv
<1>4. CASE UNCHANGED allVars
  <2>1. UNCHANGED <<conf, ini, pending, zone, llock, plock, pc, target, prev, slips, rpc, seen>>
    BY <1>4 DEF allVars, vars, panel
  <2>2. \A q \in Proc : Protocol(q)'
    BY <2>1, ProtocolFrame DEF ReconcileInv, files
  <2>3. ReconcileTypeOK' /\ ReconcileLock' /\ OneHandler' /\ FindingHolds'
    BY <2>1
    DEF ReconcileInv, ReconcileTypeOK, TypeOK, ReconcileLock, Reconciling, OneHandler,
        FindingHolds, Configured, Describes
  <2>4. QED BY <2>2, <2>3 DEF ReconcileInv
<1>5. QED BY <1>1, <1>2, <1>3, <1>4 DEF ReconcileNext

\* The invariant of the composition holds throughout every behaviour.
LEMMA ReconcileInvariance == ReconcileSpec => []ReconcileInv
BY ReconcileInvInit, ReconcileInvStep, PTL DEF ReconcileSpec

\* A place somebody chose is replaced only by a user's transaction: what a
\* reconciliation publishes under the lock goes into a policy that has no place
\* (ss_linux_date_time_panel_reconcile_system_time_change).
THEOREM ChosenPlaceIsSafe == ReconcileSpec => ChoiceSurvivesReconciliation
<1>1. ReconcileInv /\ [ReconcileNext]_allVars =>
        [chosen /\ Configured(conf) /\ conf' # conf =>
           \E p \in Proc : pc[p] \in {"save", "rollback"}]_allVars
  <2> SUFFICES ASSUME ReconcileInv, ReconcileNext, Configured(conf), conf' # conf
               PROVE  \E p \in Proc : pc[p] \in {"save", "rollback"}
    BY DEF allVars, vars
  <2>1. ASSUME NEW p \in Proc, JournalStep(p) PROVE pc[p] \in {"save", "rollback"}
    BY <2>1
    DEF JournalStep, Transaction, Recovery, ChoosePlace, transaction_begin,
        transaction_begin_fails, load_authoritative_location_metadata,
        load_authoritative_location_metadata_fails, stage, stage_fails, begin_update,
        begin_update_fails, load_policy, load_policy_fails, save, save_fails, publish,
        publish_fails, remove_journal, finish, rollback, rollback_fails, discard_staged,
        recover, recover_reads_fail, recover_completes, recover_complete_fails,
        recover_discards, recover_discard_fails, recover_clears, recover_finds_nothing,
        Crash, files
  <2>2. ASSUME NEW p \in Gui,
               Reconcile(p) \/ CrashReconciling(p) \/ refresh_location_authority_state(p)
                            \/ system_time_operation_applied(p)
        PROVE  FALSE
    <3>1. rpc[p] # "publish_reference"
      BY DEF ReconcileInv, FindingHolds
    <3>2. QED
      BY <2>2, <3>1
      DEF Reconcile, reconcile_system_time_change, reconcile_locks, reconcile_lock_fails,
          reconcile_reads, reconcile_read_fails, reconcile_saves_zone,
          reconcile_publishes_reference, reconcile_publication_fails, CrashReconciling,
          refresh_location_authority_state, system_time_operation_applied, ZoneChange,
          files, vars
  <2>3. ASSUME OtherSetter \/ ZoneChange PROVE FALSE
    BY <2>3, LocAssumption DEF OtherSetter, ZoneChange, Configured, files
  <2>4. QED BY <2>1, <2>2, <2>3 DEF ReconcileNext
<1>2. QED BY <1>1, ReconcileInvariance, PTL DEF ReconcileSpec, ChoiceSurvivesReconciliation

\* Whoever rewrites the metadata, a transaction, a recovery or a reconciliation
\* with the new zone, describes the configured place (reconcile_saves_zone).
THEOREM RewrittenMetadataFollows == ReconcileSpec => ReconciledMetadataFollowsPolicy
<1>1. ReconcileInv /\ [ReconcileNext]_allVars =>
        [ini' # ini /\ ini' \in Metadata => Describes(ini', conf')]_allVars
  <2> SUFFICES ASSUME ReconcileInv, ReconcileNext, ini' # ini, ini' \in Metadata
               PROVE  Describes(ini', conf')
    BY DEF allVars, vars
  <2>1. TypeOK /\ \A p \in Proc : CommitIsStaged(p)
    BY DEF ReconcileInv, ReconcileTypeOK, Protocol
  <2>2. ASSUME NEW p \in Proc, JournalStep(p) PROVE Describes(ini', conf')
    <3>1. Next
      BY <2>2 DEF JournalStep, Next
    <3>2. QED BY <2>1, <3>1, PublishedDescribes
  <2>3. ASSUME NEW p \in Gui,
               Reconcile(p) \/ CrashReconciling(p) \/ refresh_location_authority_state(p)
                            \/ system_time_operation_applied(p)
        PROVE  Describes(ini', conf')
    <3>1. CASE reconcile_saves_zone(p)
      BY <3>1, SavedZoneDescribes
    <3>2. CASE ~reconcile_saves_zone(p)
      BY <2>3, <3>2
      DEF Reconcile, reconcile_system_time_change, reconcile_locks, reconcile_lock_fails,
          reconcile_reads, reconcile_read_fails, reconcile_publishes_reference,
          reconcile_publication_fails, CrashReconciling,
          refresh_location_authority_state, system_time_operation_applied, ZoneChange,
          files, vars
    <3>3. QED BY <3>1, <3>2
  <2>4. ASSUME OtherSetter \/ ZoneChange PROVE FALSE
    BY <2>4 DEF OtherSetter, ZoneChange, files
  <2>5. QED BY <2>2, <2>3, <2>4 DEF ReconcileNext
<1>2. QED BY <1>1, ReconcileInvariance, PTL DEF ReconcileSpec, ReconciledMetadataFollowsPolicy
=============================================================================
