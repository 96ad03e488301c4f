------------------------- MODULE LocalityReconcile --------------------------
(***************************************************************************)
(* The window's answer to a change of the system's time zone, composed     *)
(* with the transactions and recoveries of LocalityJournal.  Under the     *)
(* locality lock it reads the zone, the policy and the metadata again;     *)
(* metadata that describes the configured place gets the new zone, and a   *)
(* policy that only follows the time zone's reference point is given the   *)
(* reference coordinates of the new one.                                   *)
(*                                                                         *)
(* Definitions introduced by "Mutant:" are slips the properties must catch;*)
(* no other definition uses them.                                          *)
(***************************************************************************)
EXTENDS LocalityJournal

CONSTANT Ref           \* reference coordinates of each zone

ASSUME RefAssumption == Ref \in [Zone -> Loc]

VARIABLES
  rpc,                 \* where each window is in its reconciliation
  seen,                \* regional_context.timezone_id of each window
  follows,             \* follows_timezone_reference of each window
  chosen               \* history: somebody has committed a place of his own

panel == <<rpc, seen, follows>>
allVars == <<vars, panel, chosen>>

\* refresh_location_authority_state, for the location the model holds and the
\* zone the window knows.  The record a window keeps in memory is not modelled:
\* while location.ini is unreadable it may match the policy or not.
MayFollow(place, z) ==
  LET follow == ~Configured(place) \/ place = Ref[z]
  IN  IF ini = Corrupt THEN {FALSE, follow} ELSE {follow /\ ~Describes(ini, place)}

ReconcileInit ==
  /\ Init
  /\ rpc = [p \in Gui |-> "idle"]
  /\ seen = [p \in Gui |-> zone]
  /\ follows \in [Gui -> BOOLEAN]
  /\ \A p \in Gui : follows[p] \in MayFollow(conf, zone)
  /\ chosen = Configured(conf)

-----------------------------------------------------------------------------
RGoto(p, to) == rpc' = [rpc EXCEPT ![p] = to]

\* policy_file_changed reads the policy and the metadata again;
\* location_metadata_file_changed only the metadata, and compares it with the
\* policy the model holds, which is older if another process has saved since.
refresh_location_authority_state(p) ==
  /\ pc[p] = "idle" /\ rpc[p] = "idle"
  /\ \E place \in {conf} \cup (IF Proc = {p} THEN {} ELSE Loc \cup {NoLoc}) :
       \E f \in MayFollow(place, seen[p]) : follows' = [follows EXCEPT ![p] = f]
  /\ UNCHANGED <<vars, rpc, seen, chosen>>

\* A change the window itself asked for has been applied, and the answer is
\* handled before the signal: the regional context is read again, and nothing
\* else is reconciled yet.
system_time_operation_applied(p) ==
  /\ pc[p] = "idle" /\ rpc[p] = "idle"
  /\ ZoneChange
  /\ seen' = [seen EXCEPT ![p] = zone']
  /\ UNCHANGED <<rpc, follows, chosen>>

\* timedated reported a change.
reconcile_system_time_change(p) ==
  /\ pc[p] = "idle" /\ rpc[p] = "idle"
  /\ seen[p] # zone \/ follows[p]
  /\ seen' = [seen EXCEPT ![p] = zone]
  /\ RGoto(p, "lock")
  /\ UNCHANGED <<vars, follows, chosen>>

reconcile_locks(p) ==
  /\ rpc[p] = "lock"
  /\ llock = NoProc
  /\ llock' = p
  /\ RGoto(p, "read")
  /\ UNCHANGED <<files, others, plock, pc, local, seen, follows, chosen>>

reconcile_lock_fails(p) ==
  /\ rpc[p] = "lock"
  /\ llock # NoProc \/ "io" \in Fault
  /\ RGoto(p, "idle")
  /\ UNCHANGED <<vars, seen, follows, chosen>>

\* transaction_end at the end of the handler.
Unlock(p) == llock' = NoProc /\ RGoto(p, "idle")

\* Mutant: the record is not compared with the policy.
MayNeedZoneAny ==
  IF ini = Corrupt THEN {FALSE, Configured(conf)}
                   ELSE {(ini \in Metadata) /\ ini.zone # zone}

\* The record describes the configured place and names another zone: so says
\* location.ini, or, when it is unreadable, the last known record may say so.
MayNeedZone ==
  IF ini = Corrupt THEN {FALSE, Configured(conf)}
                   ELSE {Describes(ini, conf) /\ ini.zone # zone}

\* Mutant: the decision to follow the zone is the one made before the lock.
reconcile_reads_stale(p) ==
  /\ rpc[p] = "read"
  /\ seen' = [seen EXCEPT ![p] = zone]
  /\ \/ /\ follows[p] /\ conf # Ref[zone]
        /\ RGoto(p, "publish_reference") /\ UNCHANGED llock
     \/ /\ ~follows[p] /\ Unlock(p)
  /\ UNCHANGED <<files, others, plock, pc, local, follows, chosen>>

\* Zone, policy and metadata as they are under the lock.
reconcile_reads(p) ==
  /\ rpc[p] = "read"
  /\ seen' = [seen EXCEPT ![p] = zone]
  /\ \E f \in MayFollow(conf, zone), rewrite \in MayNeedZone :
       /\ rewrite => ~f
       /\ follows' = [follows EXCEPT ![p] = f]
       /\ \/ /\ rewrite
             /\ RGoto(p, "save_zone") /\ UNCHANGED llock
          \/ /\ f /\ conf # Ref[zone]
             /\ RGoto(p, "publish_reference") /\ UNCHANGED llock
          \/ /\ ~rewrite /\ ~(f /\ conf # Ref[zone])
             /\ Unlock(p)
  /\ UNCHANGED <<files, others, plock, pc, local, chosen>>

\* Nothing is written when the policy cannot be loaded or timedated not read.
reconcile_read_fails(p) ==
  /\ rpc[p] = "read" /\ "io" \in Fault
  /\ seen' = [seen EXCEPT ![p] = zone]
  /\ \E f \in {follows[p]} \cup MayFollow(conf, zone) : follows' = [follows EXCEPT ![p] = f]
  /\ Unlock(p)
  /\ UNCHANGED <<files, others, plock, pc, local, chosen>>

\* The metadata is rewritten with the zone that was read, or the write fails.
reconcile_saves_zone(p) ==
  /\ rpc[p] = "save_zone"
  /\ LET m == [at   |-> IF ini = Corrupt THEN conf ELSE ini.at,
                zone |-> seen[p]]
     IN  ini' \in {m} \cup (IF "io" \in Fault THEN Failed(ini, m) ELSE {})
  /\ Unlock(p)
  /\ UNCHANGED <<conf, pending, others, plock, pc, local, seen, follows, chosen>>

\* ss_date_time_model_set_location under the policy lock.
reconcile_publishes_reference(p) ==
  /\ rpc[p] = "publish_reference"
  /\ plock = NoProc
  /\ conf' = Ref[seen[p]]
  /\ Unlock(p)
  /\ UNCHANGED <<ini, pending, others, plock, pc, local, seen, follows, chosen>>

\* The policy lock is busy, or the save fails.
reconcile_publication_fails(p) ==
  /\ rpc[p] = "publish_reference"
  /\ plock # NoProc \/ "io" \in Fault
  /\ conf' \in IF plock = NoProc THEN Failed(conf, Ref[seen[p]]) ELSE {conf}
  /\ Unlock(p)
  /\ UNCHANGED <<ini, pending, others, plock, pc, local, seen, follows, chosen>>

\* The window dies and is opened again.
CrashReconciling(p) ==
  /\ "crash" \in Fault
  /\ rpc[p] # "idle"
  /\ RGoto(p, "idle")
  /\ llock' = IF llock = p THEN NoProc ELSE llock
  /\ seen' = [seen EXCEPT ![p] = zone]
  /\ \E f \in MayFollow(conf, zone) : follows' = [follows EXCEPT ![p] = f]
  /\ UNCHANGED <<files, others, plock, pc, local, chosen>>

Reconcile(p) ==
  \/ reconcile_system_time_change(p)
  \/ reconcile_locks(p)
  \/ reconcile_lock_fails(p)
  \/ reconcile_reads(p)
  \/ reconcile_read_fails(p)
  \/ reconcile_saves_zone(p)
  \/ reconcile_publishes_reference(p)
  \/ reconcile_publication_fails(p)

\* A step of LocalityJournal; a window is single-threaded, and a successful
\* choice ends its following of the time zone.
JournalStep(p) ==
  /\ p \in Gui => rpc[p] = "idle"
  /\ Transaction(p) \/ Recovery(p) \/ Crash(p)
  /\ chosen' = (chosen \/ (pc[p] = "save" /\ pc'[p] = "publish" /\ target[p] # NoLoc))
  /\ follows' = IF p \in Gui /\ pc[p] = "finish" /\ target[p] # NoLoc
                  THEN [follows EXCEPT ![p] = FALSE] ELSE follows
  /\ UNCHANGED <<rpc, seen>>

ReconcileNext ==
  \/ \E p \in Proc : JournalStep(p)
  \/ \E p \in Gui : \/ refresh_location_authority_state(p)
                    \/ system_time_operation_applied(p)
                    \/ Reconcile(p)
                    \/ CrashReconciling(p)
  \/ (OtherSetter \/ ZoneChange) /\ UNCHANGED <<panel, chosen>>

ReconcileSpec == ReconcileInit /\ [][ReconcileNext]_allVars

\* A window's main loop finishes the handler it is running, and reaches the
\* signals of timedated although it handles other events in between.
ReconcileFairSpec ==
  /\ ReconcileSpec
  /\ \A p \in Gui : /\ WF_allVars(pc[p] # "idle" /\ JournalStep(p))
                     /\ SF_allVars(Reconcile(p))

-----------------------------------------------------------------------------
(* What must hold.                                                         *)

\* A place that somebody chose is replaced only by a transaction of a user:
\* a reconciliation in a second window never overwrites a freshly selected
\* place with reference coordinates.
ChoiceSurvivesReconciliation ==
  [][chosen /\ Configured(conf) /\ conf' # conf =>
       \E p \in Proc : pc[p] \in {"save", "rollback"}]_allVars

\* Whoever rewrites the metadata of a place, alone under the locality lock,
\* describes the place that is configured.
ReconciledMetadataFollowsPolicy ==
  [][ini' # ini /\ ini' \in Metadata => Describes(ini', conf')]_allVars

\* "Until the user chooses a precise locality or custom coordinates, the tzdata
\* reference coordinate follows the real system zone": where the metadata is
\* readable, reference coordinates that are in force give way to those of the
\* zone (ss_linux_date_time_panel_reconcile_system_time_change).
ReferenceFollowsZone ==
  [](ini # Corrupt) =>
    ((~chosen /\ Configured(conf) /\ conf # Ref[zone])
       ~> (chosen \/ ~Configured(conf) \/ conf = Ref[zone]))
=============================================================================
