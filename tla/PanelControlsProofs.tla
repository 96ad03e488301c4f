------------------------ MODULE PanelControlsProofs -------------------------
(***************************************************************************)
(* Proofs about PanelControls, for any places and any number of moves and  *)
(* faults: the panel's state is consistent at every step of its handlers,  *)
(* the spin buttons show what is saved, and a pending commit saves what    *)
(* the user typed.                                                         *)
(***************************************************************************)
EXTENDS PanelControls, TLAPS

(***************************************************************************)
(* The inductive invariant.  The spin buttons are filled from the model's  *)
(* place, so SpinShowsSaved needs that place to be the saved one also      *)
(* while a commit is pending; generations are typed because each one took  *)
(* a move.                                                                 *)
(***************************************************************************)
\* The model holds the saved place once its events are handled.
PlaceIsSaved == Open /\ "policy" \notin events \cup unread => place = conf

\* A search is a move of the user.
SearchesAreMoves == generation <= moves

IInv ==
  /\ PanelInvariant
  /\ SpinShowsSaved
  /\ CommitIsTyped
  /\ PlaceIsSaved
  /\ SearchesAreMoves

-----------------------------------------------------------------------------
(***************************************************************************)
(* Type correctness.                                                       *)
(***************************************************************************)
\* The records the panel writes are metadata (Found by the search, Custom by
\* the spin buttons).
LEMMA RecordType ==
  ASSUME NEW c \in Place
  PROVE  /\ Found(c) \in Metadata /\ Found(c).at = c
         /\ Custom(c) \in Metadata /\ Custom(c).at = c
BY DEF Found, Custom, Metadata

\* A recovery leaves records and touches nothing else (ss_location_metadata_recover).
LEMMA RecoverType ==
  ASSUME TypeOK, recover \/ recover_fails
  PROVE  /\ ini' \in Metadata \cup {None} /\ journal' \in Metadata \cup {None}
         /\ conf' = conf
BY DEF TypeOK, recover, recover_fails, files

\* Writing the controls keeps their types (sync_controls).
LEMMA SyncType ==
  ASSUME TypeOK, NEW b \in BOOLEAN, place' \in Place \cup {Unset}, sync_controls(b)
  PROVE  /\ spin' \in Place /\ typed' \in Place
         /\ timer' \in BOOLEAN /\ refilled' \in BOOLEAN /\ outdated' \in BOOLEAN
         /\ shown' \in BOOLEAN
<1>1. spin' \in Place /\ typed' \in Place
  BY ReferenceAssumption DEF TypeOK, sync_controls, Fill
<1>2. timer' = b /\ refilled' \in {b, b /\ refilled} /\ outdated' = FALSE /\ shown' = desktop
  BY DEF sync_controls, Fill, sync_native_format_controls
<1>3. (b /\ refilled) \in BOOLEAN
  OBVIOUS
<1>4. QED BY <1>1, <1>2, <1>3 DEF TypeOK

\* The two ways a reconciliation ends keep the types of what it writes.
LEMMA ReconcileType ==
  ASSUME TypeOK, ss_linux_date_time_panel_reconcile_system_time_change
  PROVE  /\ reference' \in Reference /\ meta' \in Metadata \cup {None}
         /\ conf' \in Place \cup {Unset} /\ place' \in Place \cup {Unset}
         /\ ini' \in Metadata \cup {None}
         /\ events' \subseteq events \cup {"policy", "metadata"}
         /\ spin' \in Place /\ typed' \in Place
         /\ timer' \in BOOLEAN /\ refilled' \in BOOLEAN /\ outdated' \in BOOLEAN
<1> USE DEF ss_linux_date_time_panel_reconcile_system_time_change
<1>1. reference' \in Reference /\ meta' \in Metadata \cup {None}
  BY DEF TypeOK
<1>2. CASE KeepPlace /\ place' \in {conf, place}
  <2>1. /\ UNCHANGED <<conf, spin, timer, typed, refilled>>
        /\ ini' \in {ini, meta'} /\ events' \subseteq events \cup {"metadata"}
    BY <1>2 DEF KeepPlace
  <2>2. outdated' \in BOOLEAN
    BY <1>2 DEF KeepPlace
  <2>3. timer \in BOOLEAN /\ refilled \in BOOLEAN
    BY DEF TypeOK
  <2>4. timer' \in BOOLEAN /\ refilled' \in BOOLEAN
    BY <2>1, <2>3
  <2>5. QED BY <1>1, <1>2, <2>1, <2>2, <2>4 DEF TypeOK
<1>3. CASE PublishReference
  <2>1. /\ reference' \in Place /\ conf' = reference' /\ place' = reference'
        /\ UNCHANGED <<ini, typed>> /\ spin' = reference'
        /\ events' \subseteq events \cup {"policy"}
    BY <1>1, <1>3, ReferenceAssumption DEF PublishReference, Fill
  <2>2. timer' = timer /\ refilled' = timer /\ outdated' = FALSE
    BY <1>3 DEF PublishReference, Fill
  <2>3. timer \in BOOLEAN
    BY DEF TypeOK
  <2>4. timer' \in BOOLEAN /\ refilled' \in BOOLEAN /\ outdated' \in BOOLEAN
    BY <2>2, <2>3
  <2>5. QED BY <1>1, <2>1, <2>4 DEF TypeOK
<1>4. QED BY <1>2, <1>3

\* Counting a move or a fault stays within the bound.
LEMMA CountType ==
  ASSUME TypeOK
  PROVE  /\ Move => moves' \in 0..MaxMoves /\ moves' = moves + 1
         /\ Fault => faults' \in 0..MaxFaults
         /\ Works => faults' \in 0..MaxFaults
BY BoundAssumption DEF TypeOK, Move, Fault, Works

\* What a reconciliation leaves alone and what it may change: it takes the place
\* that is saved, or writes the reference point and shows it.
LEMMA ReconcileEffect ==
  ASSUME ss_linux_date_time_panel_reconcile_system_time_change
  PROVE  /\ Open /\ UNCHANGED <<panel, unread, shown, desktop, timer, rows, recovery>>
         /\ events \subseteq events'
         /\ meta' = ini' \/ UNCHANGED <<meta, ini>>
         /\ \/ /\ UNCHANGED <<conf, spin, typed, refilled>> /\ place' \in {conf, place}
               /\ outdated => outdated'
               /\ reference' # reference => outdated'
            \/ conf' = reference' /\ place' = conf' /\ Fill(reference', timer)
<1> USE DEF ss_linux_date_time_panel_reconcile_system_time_change, search, recovery, format
<1>1. CASE KeepPlace /\ place' \in {conf, place}
  <2>1. /\ UNCHANGED <<conf, spin, timer, typed, refilled>> /\ events \subseteq events'
        /\ ini' = ini \/ ini' = meta'
    BY <1>1 DEF KeepPlace
  <2>2. (outdated => outdated') /\ (reference' # reference => outdated')
    BY <1>1, Zenon DEF KeepPlace
  <2>3. QED BY <1>1, <2>1, <2>2
<1>2. CASE PublishReference
  BY <1>2 DEF PublishReference, Fill
<1>3. QED BY <1>1, <1>2

\* A place that is not taken fails at one of the steps of its transaction.
LEMMA FailsEffect ==
  ASSUME TypeOK, commit_location_coordinates_fails \/ on_location_result_activated_fails
  PROVE  \E step \in Steps, m \in Metadata : SaveFails(step, m)
BY RecordType, NoneAssumption
DEF TypeOK, commit_location_coordinates_fails, on_location_result_activated_fails

\* The initial state satisfies the inductive invariant.
LEMMA InvInit == Init => IInv
<1> SUFFICES ASSUME Init PROVE IInv
  OBVIOUS
<1>1. TypeOK
  <2>1. conf \in Place \cup {Unset} /\ ini \in Metadata \cup {None}
    BY RecordType DEF Init
  <2>2. /\ generation \in 0..MaxMoves /\ moves \in 0..MaxMoves /\ faults \in 0..MaxFaults
        /\ generation <= moves
    BY BoundAssumption DEF Init
  <2>3. {timer, refilled, outdated} \subseteq BOOLEAN /\ desktop \in BOOLEAN /\ shown \in BOOLEAN
    BY DEF Init
  <2>4. {recovery_failed, retry, skipped} \subseteq BOOLEAN
    BY DEF Init
  <2>5. QED BY <2>1, <2>2, <2>3, <2>4, PlaceAssumption DEF Init, TypeOK
<1>2. QED
  BY <1>1
  DEF Init, IInv, PanelInvariant, RowsAnswerTheNewestSearch, PanelAgreesAtRest,
      RecoveryIsRetried, NothingOutlivesThePanel, SpinShowsSaved, CommitIsTyped,
      PlaceIsSaved, SearchesAreMoves, Open

\* Every step keeps the state well typed.
LEMMA TypeStep == TypeOK /\ SearchesAreMoves /\ [Next]_vars => TypeOK' /\ SearchesAreMoves'
<1> SUFFICES ASSUME TypeOK, SearchesAreMoves, [Next]_vars PROVE TypeOK' /\ SearchesAreMoves'
  OBVIOUS
<1>0. /\ moves \in Nat /\ generation \in Nat /\ generation <= moves
      /\ Move => moves' \in 0..MaxMoves /\ moves' = moves + 1
      /\ Fault => faults' \in 0..MaxFaults
      /\ Works => faults' \in 0..MaxFaults
  BY CountType DEF TypeOK, SearchesAreMoves
<1> USE <1>0 DEF files, believed, edit, search, recovery, format
<1>1. CASE policy_file_changed
  <2>1. conf' \in Place \cup {Unset} /\ place' \in Place \cup {Unset}
    BY <1>1, RecoverType DEF TypeOK, policy_file_changed
  <2>2. ini' \in Metadata \cup {None} /\ journal' \in Metadata \cup {None}
    BY <1>1, RecoverType DEF policy_file_changed
  <2>3. meta' \in Metadata \cup {None} /\ unread' \subseteq {"policy", "metadata"}
    BY <1>1, <2>2 DEF TypeOK, policy_file_changed
  <2>4. spin' \in Place /\ typed' \in Place /\ timer' \in BOOLEAN /\ refilled' \in BOOLEAN
        /\ outdated' \in BOOLEAN /\ shown' \in BOOLEAN
    BY <1>1, <2>1, SyncType DEF policy_file_changed
  <2>5. recovery_failed' \in BOOLEAN /\ retry' \in BOOLEAN /\ UNCHANGED skipped
    BY <1>1 DEF policy_file_changed, Reschedule
  <2>6. events' \subseteq {"policy", "metadata", "format"}
    BY <1>1 DEF TypeOK, policy_file_changed, Handled
  <2>7. faults' \in 0..MaxFaults
    BY <1>1 DEF policy_file_changed, recover_fails
  <2>8. UNCHANGED <<other, panel, reference, generation, inflight, rows, desktop, moves>>
    BY <1>1 DEF policy_file_changed
  <2>9. QED BY <2>1, <2>2, <2>3, <2>4, <2>5, <2>6, <2>7, <2>8 DEF TypeOK, SearchesAreMoves
<1>2. CASE policy_file_unreadable
  <2>1. timer' \in BOOLEAN /\ refilled' \in BOOLEAN
    BY <1>2 DEF policy_file_unreadable
  <2>2. QED BY <1>2, <2>1 DEF TypeOK, SearchesAreMoves, policy_file_unreadable
<1>3. CASE location_metadata_file_changed
  <2>1. meta' \in Metadata \cup {None} /\ unread' \subseteq {"policy", "metadata"}
        /\ faults' \in 0..MaxFaults
    BY <1>3 DEF TypeOK, location_metadata_file_changed, LoadMetadata
  <2>2. spin' \in Place /\ typed' \in Place /\ timer' \in BOOLEAN /\ refilled' \in BOOLEAN
        /\ outdated' \in BOOLEAN /\ shown' \in BOOLEAN
    BY <1>3, SyncType DEF TypeOK, location_metadata_file_changed
  <2>3. QED
    BY <1>3, <2>1, <2>2 DEF TypeOK, SearchesAreMoves, location_metadata_file_changed
<1>4. CASE retry_locality_recovery
  <2>1. /\ ini' \in Metadata \cup {None} /\ journal' \in Metadata \cup {None}
        /\ UNCHANGED <<conf, place>>
    BY <1>4, RecoverType DEF retry_locality_recovery
  <2>2. meta' \in Metadata \cup {None} /\ unread' \subseteq {"policy", "metadata"}
        /\ faults' \in 0..MaxFaults
    BY <1>4, <2>1 DEF TypeOK, retry_locality_recovery, LoadMetadata, recover_fails
  <2>3. spin' \in Place /\ typed' \in Place /\ timer' \in BOOLEAN /\ refilled' \in BOOLEAN
        /\ outdated' \in BOOLEAN /\ shown' \in BOOLEAN
    BY <1>4, <2>1, SyncType DEF TypeOK, retry_locality_recovery
  <2>4. recovery_failed' \in BOOLEAN /\ retry' \in BOOLEAN /\ UNCHANGED skipped
    BY <1>4 DEF retry_locality_recovery, Reschedule
  <2>5. events' \subseteq {"policy", "metadata", "format"}
    BY <1>4 DEF TypeOK, retry_locality_recovery, Handled
  <2>6. UNCHANGED <<other, panel, reference, generation, inflight, rows, desktop, moves>>
    BY <1>4 DEF retry_locality_recovery
  <2>7. QED BY <2>1, <2>2, <2>3, <2>4, <2>5, <2>6 DEF TypeOK, SearchesAreMoves
<1>5. CASE commit_location_coordinates \/ on_location_result_activated
  <2>1. PICK m \in Metadata : Save(m)
    BY <1>5, RecordType, NoneAssumption
    DEF TypeOK, commit_location_coordinates, on_location_result_activated
  <2>2. m.at \in Place
    BY DEF Metadata
  <2>3. spin' \in Place /\ typed' \in Place /\ timer' \in BOOLEAN /\ refilled' \in BOOLEAN
        /\ outdated' \in BOOLEAN /\ shown' \in BOOLEAN
    BY <1>5
    DEF TypeOK, commit_location_coordinates, on_location_result_activated, Fill,
        sync_native_format_controls
  <2>4. /\ conf' \in Place \cup {Unset} /\ place' \in Place \cup {Unset}
        /\ ini' \in Metadata \cup {None} /\ journal' \in Metadata \cup {None}
        /\ meta' \in Metadata \cup {None} /\ unread' \subseteq {"policy", "metadata"}
        /\ events' \subseteq {"policy", "metadata", "format"} /\ faults' \in 0..MaxFaults
    BY <2>1, <2>2 DEF TypeOK, Save
  <2>5. /\ UNCHANGED <<other, panel, reference, generation, inflight, recovery, desktop>>
        /\ rows' \in {rows, None} /\ moves' \in 0..MaxMoves /\ moves' >= moves
    BY <1>5 DEF TypeOK, commit_location_coordinates, on_location_result_activated
  <2>6. QED BY <2>3, <2>4, <2>5 DEF TypeOK, SearchesAreMoves
<1>6. CASE commit_location_coordinates_fails \/ on_location_result_activated_fails
  <2>1. PICK step \in Steps, m \in Metadata : SaveFails(step, m)
    BY <1>6, FailsEffect
  <2>2. /\ conf' \in {conf, m.at} /\ place' \in {place, m.at} /\ UNCHANGED ini
        /\ journal' \in {journal, None, m} /\ m.at \in Place
        /\ meta' \in {meta, ini} /\ unread' \subseteq unread
        /\ events' \subseteq events \cup {"policy"} /\ faults' \in 0..MaxFaults
    BY <2>1 DEF SaveFails, Metadata
  <2>3. spin' \in Place /\ typed' \in Place /\ timer' \in BOOLEAN /\ refilled' \in BOOLEAN
        /\ outdated' \in BOOLEAN /\ shown' \in BOOLEAN
    <3>1. CASE UNCHANGED <<edit, shown>>
      BY <3>1 DEF TypeOK
    <3>2. CASE sync_controls(FALSE) \/ sync_controls(timer)
      <4>1. place' \in Place \cup {Unset} /\ timer \in BOOLEAN
        BY <2>2 DEF TypeOK
      <4>2. QED BY <3>2, <4>1, SyncType
    <3>3. QED
      BY <1>6, <3>1, <3>2
      DEF commit_location_coordinates_fails, on_location_result_activated_fails
  <2>4. /\ UNCHANGED <<other, panel, reference, search, recovery, desktop>>
        /\ moves' \in 0..MaxMoves /\ moves' >= moves
    <3>1. /\ UNCHANGED <<other, panel, reference, search, recovery, desktop>>
          /\ UNCHANGED moves \/ Move
      BY <1>6 DEF commit_location_coordinates_fails, on_location_result_activated_fails
    <3>2. QED BY <3>1 DEF TypeOK
  <2>5. QED BY <2>2, <2>3, <2>4 DEF TypeOK, SearchesAreMoves
<1>7. CASE location_search_complete
  <2>1. rows' \in [of : 1..MaxMoves, at : Place] \cup {None}
    <3>1. PICK g \in inflight : rows' \in IF Wanted(g) THEN search_finished(g) ELSE {rows}
      BY <1>7 DEF location_search_complete
    <3>2. g \in 1..MaxMoves
      <4>1. g \in 1..generation /\ generation <= moves /\ moves \in 0..MaxMoves
        BY <3>1 DEF TypeOK
      <4>2. QED BY <4>1, <1>0, BoundAssumption
    <3>3. search_finished(g) \subseteq [of : 1..MaxMoves, at : Place] \cup {None}
      BY <3>2 DEF search_finished
    <3>4. QED BY <3>1, <3>3 DEF TypeOK
  <2>2. QED BY <1>7, <2>1 DEF TypeOK, SearchesAreMoves, location_search_complete
<1>8. CASE begin_location_search
  <2>1. generation' \in 0..MaxMoves /\ inflight' \subseteq 1..generation' /\ generation' <= moves'
    <3>1. generation' = generation + 1 /\ inflight' = inflight \cup {generation + 1} /\ Move
      BY <1>8 DEF begin_location_search, ss_location_search_async
    <3>2. moves' = moves + 1 /\ moves + 1 \in 0..MaxMoves /\ inflight \subseteq 1..generation
      BY <3>1 DEF TypeOK
    <3>3. generation' <= moves' /\ generation' \in 0..MaxMoves
      BY <3>1, <3>2, BoundAssumption
    <3>4. QED BY <3>1, <3>2, <3>3
  <2>2. QED BY <1>8, <2>1 DEF TypeOK, SearchesAreMoves, begin_location_search
<1>9. CASE ss_linux_date_time_panel_new
  <2>1. /\ ini' \in Metadata \cup {None} /\ journal' \in Metadata \cup {None}
        /\ conf' \in Place \cup {Unset} /\ place' \in Place \cup {Unset}
    BY <1>9, RecoverType DEF TypeOK, ss_linux_date_time_panel_new
  <2>2. spin' \in Place /\ typed' \in Place /\ timer' \in BOOLEAN /\ refilled' \in BOOLEAN
        /\ outdated' \in BOOLEAN /\ shown' \in BOOLEAN
    BY <1>9, <2>1, SyncType DEF ss_linux_date_time_panel_new
  <2>3. recovery_failed' \in BOOLEAN /\ faults' \in 0..MaxFaults
    BY <1>9 DEF ss_linux_date_time_panel_new, recover_fails
  <2>4. skipped' \in BOOLEAN
    BY <1>9, <2>3 DEF ss_linux_date_time_panel_new
  <2>5. retry' \in BOOLEAN
    BY <1>9 DEF ss_linux_date_time_panel_new
  <2>6. /\ panel' = "open" /\ meta' \in {ini', None} /\ unread' \subseteq {"metadata"}
        /\ UNCHANGED <<other, events, reference, search, desktop, moves>>
    BY <1>9 DEF ss_linux_date_time_panel_new
  <2>7. QED BY <2>1, <2>2, <2>3, <2>4, <2>5, <2>6 DEF TypeOK, SearchesAreMoves
<1>10. CASE ss_linux_date_time_panel_free
  BY <1>10 DEF TypeOK, SearchesAreMoves, ss_linux_date_time_panel_free
<1>11. CASE on_location_coordinate_changed
  <2>1. /\ spin' \in Place /\ typed' \in Place /\ timer' \in BOOLEAN /\ refilled' \in BOOLEAN
        /\ moves' \in 0..MaxMoves /\ moves' = moves + 1
    BY <1>11 DEF on_location_coordinate_changed
  <2>2. QED BY <1>11, <2>1 DEF TypeOK, SearchesAreMoves, on_location_coordinate_changed
<1>12. CASE SaveOtherField
  <2>1. spin' \in Place /\ typed' \in Place /\ timer' \in BOOLEAN /\ refilled' \in BOOLEAN
        /\ outdated' \in BOOLEAN /\ shown' \in BOOLEAN
    <3>1. CASE UNCHANGED edit /\ sync_native_format_controls
      BY <3>1 DEF TypeOK, sync_native_format_controls
    <3>2. CASE sync_controls(timer)
      BY <1>12, <3>2, SyncType DEF TypeOK, SaveOtherField
    <3>3. QED BY <1>12, <3>1, <3>2 DEF SaveOtherField
  <2>2. QED BY <1>12, <2>1 DEF TypeOK, SearchesAreMoves, SaveOtherField
<1>13. CASE on_cinnamon_interface_changed
  BY <1>13
  DEF TypeOK, SearchesAreMoves, on_cinnamon_interface_changed, sync_native_format_controls
<1>14. CASE on_show_date_changed \/ on_show_date_changed_fails
  <2>1. desktop' \in BOOLEAN /\ shown' \in BOOLEAN
    BY <1>14
    DEF TypeOK, on_show_date_changed, on_show_date_changed_fails, sync_native_format_controls
  <2>2. /\ moves' \in 0..MaxMoves /\ moves' = moves + 1 /\ faults' \in 0..MaxFaults
        /\ events' \subseteq events \cup {"format"}
    BY <1>14 DEF TypeOK, on_show_date_changed, on_show_date_changed_fails
  <2>3. UNCHANGED <<files, other, panel, believed, reference, edit, search, recovery>>
    BY <1>14 DEF on_show_date_changed, on_show_date_changed_fails
  <2>4. QED BY <2>1, <2>2, <2>3 DEF TypeOK, SearchesAreMoves
<1>15. CASE ChangeDesktop
  BY <1>15 DEF TypeOK, SearchesAreMoves, ChangeDesktop, Announce
<1>16. CASE OtherStages
  <2>1. journal' \in Metadata \cup {None}
    BY <1>16, RecordType DEF TypeOK, OtherStages
  <2>2. QED BY <1>16, <2>1 DEF TypeOK, SearchesAreMoves, OtherStages
<1>17. CASE OtherSaves \/ OtherPublishes \/ OtherCrashes
  <2>1. other # None => other \in [to : Place \cup {Unset}, phase : {"staged", "saved"}]
    BY DEF TypeOK
  <2>2. QED
    BY <1>17, <2>1
    DEF TypeOK, SearchesAreMoves, OtherSaves, OtherPublishes, OtherCrashes, Announce
<1>18. CASE system_time_operation_applied
  <2>1. reference' \in Reference /\ outdated' \in BOOLEAN /\ moves' \in 0..MaxMoves
        /\ moves' = moves + 1
    BY <1>18 DEF system_time_operation_applied
  <2>2. QED BY <1>18, <2>1 DEF TypeOK, SearchesAreMoves, system_time_operation_applied
<1>19. CASE ss_linux_date_time_panel_reconcile_system_time_change
  <2>1. moves' \in 0..MaxMoves /\ moves' = moves + 1
        /\ UNCHANGED <<journal, other, panel, unread, search, recovery, format, faults>>
    BY <1>19 DEF ss_linux_date_time_panel_reconcile_system_time_change
  <2>2. events' \subseteq {"policy", "metadata", "format"}
    <3>1. events \subseteq {"policy", "metadata", "format"}
      BY DEF TypeOK
    <3>2. events' \subseteq events \cup {"policy", "metadata"}
      BY <1>19, ReconcileType
    <3>3. QED BY <3>1, <3>2
  <2>3. {timer', refilled', outdated'} \subseteq BOOLEAN
    BY <1>19, ReconcileType
  <2>4. /\ reference' \in Reference /\ meta' \in Metadata \cup {None}
        /\ conf' \in Place \cup {Unset} /\ place' \in Place \cup {Unset}
        /\ ini' \in Metadata \cup {None} /\ spin' \in Place /\ typed' \in Place
    BY <1>19, ReconcileType
  <2>5. QED BY <2>1, <2>2, <2>3, <2>4 DEF TypeOK, SearchesAreMoves
<1>20. CASE UNCHANGED vars
  BY <1>20 DEF TypeOK, SearchesAreMoves, vars
<1>21. QED
  BY <1>1, <1>2, <1>3, <1>4, <1>5, <1>6, <1>7, <1>8, <1>9, <1>10, <1>11, <1>12, <1>13, <1>14,
     <1>15, <1>16, <1>17, <1>18, <1>19, <1>20
  DEF Next, PanelHandler, User, Other

-----------------------------------------------------------------------------
(***************************************************************************)
(* The conjuncts of PanelInvariant.                                        *)
(***************************************************************************)
\* Rows appear only with the answer to the newest search, and a new search
\* takes them away (begin_location_search, location_search_complete).
LEMMA RowsStep ==
  ASSUME TypeOK, RowsAnswerTheNewestSearch, [Next]_vars
  PROVE  RowsAnswerTheNewestSearch'
<1>1. CASE location_search_complete
  <2>1. PICK g \in inflight : rows' \in IF Wanted(g) THEN search_finished(g) ELSE {rows}
    BY <1>1 DEF location_search_complete
  <2>2. UNCHANGED generation
    BY <1>1 DEF location_search_complete
  <2>3. QED
    BY <2>1, <2>2, NoneAssumption
    DEF Wanted, search_finished, RowsAnswerTheNewestSearch
<1>2. CASE ~location_search_complete
  <2>1. UNCHANGED <<rows, generation>> \/ rows' = None
    BY <1>2
    DEF Next, PanelHandler, User, Other, vars, search, policy_file_changed,
        policy_file_unreadable, location_metadata_file_changed, retry_locality_recovery,
        commit_location_coordinates, commit_location_coordinates_fails,
        on_cinnamon_interface_changed, ss_linux_date_time_panel_new,
        ss_linux_date_time_panel_free, on_location_coordinate_changed,
        on_location_result_activated, on_location_result_activated_fails, SaveOtherField,
        system_time_operation_applied,
        ss_linux_date_time_panel_reconcile_system_time_change,
        begin_location_search, on_show_date_changed, on_show_date_changed_fails,
        ChangeDesktop, OtherStages, OtherSaves, OtherPublishes, OtherCrashes
  <2>2. QED BY <2>1 DEF RowsAnswerTheNewestSearch
<1>3. QED BY <1>1, <1>2

\* A failed recovery and its timer come and go together
\* (schedule_locality_recovery_retry).
LEMMA RetryStep ==
  ASSUME TypeOK, RecoveryIsRetried, [Next]_vars
  PROVE  RecoveryIsRetried'
<1>1. CASE policy_file_changed \/ retry_locality_recovery
  <2>1. Reschedule(FALSE) \/ Reschedule(TRUE)
    BY <1>1 DEF policy_file_changed, retry_locality_recovery
  <2>2. QED BY <2>1 DEF Reschedule, RecoveryIsRetried
<1>2. CASE ss_linux_date_time_panel_new
  <2>1. retry' = (recovery_failed' /\ ~skipped')
    BY <1>2 DEF ss_linux_date_time_panel_new
  <2>2. recovery_failed' \in BOOLEAN
    BY <1>2 DEF ss_linux_date_time_panel_new
  <2>3. QED BY <2>1, <2>2 DEF RecoveryIsRetried
<1>3. CASE ss_linux_date_time_panel_free
  BY <1>3 DEF ss_linux_date_time_panel_free, RecoveryIsRetried, Open
<1>4. CASE UNCHANGED <<panel, recovery>>
  BY <1>4 DEF RecoveryIsRetried, Open, recovery
<1>5. QED
  BY <1>1, <1>2, <1>3, <1>4
  DEF Next, PanelHandler, User, Other, vars, policy_file_unreadable,
      location_metadata_file_changed, commit_location_coordinates,
      commit_location_coordinates_fails, location_search_complete,
      on_cinnamon_interface_changed, on_location_coordinate_changed,
      on_location_result_activated, on_location_result_activated_fails, SaveOtherField,
      system_time_operation_applied,
      ss_linux_date_time_panel_reconcile_system_time_change,
      begin_location_search, on_show_date_changed, on_show_date_changed_fails,
      ChangeDesktop, OtherStages, OtherSaves, OtherPublishes, OtherCrashes

\* Once the panel is freed no handler of its own runs again, and a late answer
\* finds it gone (ss_linux_date_time_panel_free, location_search_complete).
LEMMA FreedStep ==
  ASSUME TypeOK, NothingOutlivesThePanel, [Next]_vars
  PROVE  NothingOutlivesThePanel'
<1>1. CASE ss_linux_date_time_panel_free
  BY <1>1 DEF ss_linux_date_time_panel_free, NothingOutlivesThePanel
<1>2. CASE panel' # "freed"
  BY <1>2 DEF NothingOutlivesThePanel
<1>3. CASE panel = "freed" /\ UNCHANGED <<timer, retry, rows>>
  BY <1>3 DEF NothingOutlivesThePanel
<1>4. CASE location_search_complete
  BY <1>2, <1>3, <1>4 DEF location_search_complete, Wanted, Open, edit, recovery
<1>5. QED
  BY <1>1, <1>2, <1>3, <1>4
  DEF Next, PanelHandler, User, Other, vars, Open, edit, recovery, search,
      policy_file_changed, policy_file_unreadable, location_metadata_file_changed,
      retry_locality_recovery, commit_location_coordinates,
      commit_location_coordinates_fails, on_cinnamon_interface_changed,
      ss_linux_date_time_panel_new, on_location_coordinate_changed,
      on_location_result_activated, on_location_result_activated_fails, SaveOtherField,
      system_time_operation_applied,
      ss_linux_date_time_panel_reconcile_system_time_change,
      begin_location_search, on_show_date_changed, on_show_date_changed_fails,
      ChangeDesktop, OtherStages, OtherSaves, OtherPublishes, OtherCrashes

\* What the panel knows of location.ini and of the date switch is stale only
\* while an event says so or the read failed.
LEMMA AgreesStep ==
  ASSUME TypeOK, PanelAgreesAtRest, [Next]_vars
  PROVE  PanelAgreesAtRest'
<1> USE DEF files, believed, format, sync_controls, sync_native_format_controls
<1>1. CASE policy_file_changed
  <2>1. \/ meta' = ini'
        \/ "metadata" \in unread'
        \/ UNCHANGED <<meta, ini>> /\ unread' = unread \ {"policy"}
    BY <1>1 DEF policy_file_changed, recover_fails
  <2>2. /\ shown' = desktop /\ UNCHANGED <<panel, desktop>>
        /\ "metadata" \notin events' => "metadata" \notin events
    BY <1>1 DEF policy_file_changed, Handled
  <2>3. QED BY <2>1, <2>2 DEF PanelAgreesAtRest, Open
<1>2. CASE policy_file_unreadable
  BY <1>2 DEF policy_file_unreadable, PanelAgreesAtRest, Open
<1>3. CASE location_metadata_file_changed
  <2>1. meta' = ini' \/ "metadata" \in unread'
    BY <1>3 DEF location_metadata_file_changed, LoadMetadata
  <2>2. shown' = desktop /\ UNCHANGED desktop
    BY <1>3 DEF location_metadata_file_changed
  <2>3. QED BY <2>1, <2>2 DEF PanelAgreesAtRest
<1>4. CASE retry_locality_recovery
  <2>1. \/ /\ meta' = ini' \/ "metadata" \in unread'
           /\ shown' = desktop
        \/ UNCHANGED <<meta, ini, unread, shown>>
    BY <1>4 DEF retry_locality_recovery, LoadMetadata, recover_fails
  <2>2. /\ UNCHANGED <<panel, desktop>>
        /\ \A e \in {"metadata", "format"} : e \notin events' => e \notin events
    BY <1>4 DEF retry_locality_recovery, Handled
  <2>3. QED BY <2>1, <2>2 DEF PanelAgreesAtRest, Open
<1>5. CASE commit_location_coordinates \/ on_location_result_activated
  <2>1. meta' = ini' /\ shown' = desktop /\ UNCHANGED desktop
    BY <1>5 DEF commit_location_coordinates, on_location_result_activated, Save
  <2>2. QED BY <2>1 DEF PanelAgreesAtRest
<1>6. CASE commit_location_coordinates_fails \/ on_location_result_activated_fails
  <2>1. PICK step \in Steps, m \in Metadata : SaveFails(step, m)
    BY <1>6, FailsEffect
  <2>2. /\ UNCHANGED ini
        /\ meta' = ini \/ UNCHANGED <<meta, unread>>
        /\ \A e \in {"metadata", "format"} : e \notin events' => e \notin events
    BY <2>1 DEF SaveFails
  <2>3. UNCHANGED <<panel, desktop>> /\ (UNCHANGED shown \/ shown' = desktop)
    BY <1>6 DEF commit_location_coordinates_fails, on_location_result_activated_fails
  <2>4. QED BY <2>2, <2>3 DEF PanelAgreesAtRest, Open
<1>7. CASE ss_linux_date_time_panel_new
  <2>1. (meta' = ini' \/ "metadata" \in unread') /\ shown' = desktop /\ UNCHANGED desktop
    BY <1>7 DEF ss_linux_date_time_panel_new
  <2>2. QED BY <2>1 DEF PanelAgreesAtRest
<1>8. CASE ss_linux_date_time_panel_free
  BY <1>8 DEF ss_linux_date_time_panel_free, PanelAgreesAtRest, Open
<1>9. CASE SaveOtherField
  <2>1. /\ shown' = desktop /\ UNCHANGED <<panel, desktop, meta, ini>>
        /\ "metadata" \in unread => "metadata" \in unread'
        /\ "metadata" \in events => "metadata" \in events'
    BY <1>9 DEF SaveOtherField
  <2>2. QED BY <2>1 DEF PanelAgreesAtRest, Open
<1>10. CASE on_cinnamon_interface_changed
  BY <1>10 DEF on_cinnamon_interface_changed, PanelAgreesAtRest, Open
<1>11. CASE on_show_date_changed
  <2>1. shown' = desktop' /\ UNCHANGED <<panel, meta, ini, unread>>
        /\ events' = events \cup {"format"}
    BY <1>11 DEF on_show_date_changed
  <2>2. QED BY <2>1 DEF PanelAgreesAtRest, Open
<1>12. CASE on_show_date_changed_fails
  BY <1>12 DEF on_show_date_changed_fails, PanelAgreesAtRest, Open
<1>13. CASE ChangeDesktop
  BY <1>13 DEF ChangeDesktop, Announce, PanelAgreesAtRest, Open
<1>14. CASE OtherPublishes
  BY <1>14 DEF OtherPublishes, Announce, PanelAgreesAtRest, Open
<1>15. CASE OtherSaves
  BY <1>15 DEF OtherSaves, Announce, PanelAgreesAtRest, Open
<1>16. CASE ss_linux_date_time_panel_reconcile_system_time_change
  BY <1>16, ReconcileEffect DEF PanelAgreesAtRest, Open
<1>17. CASE UNCHANGED <<panel, meta, ini, unread, events, shown, desktop>>
  BY <1>17 DEF PanelAgreesAtRest, Open
<1>18. QED
  BY <1>1, <1>2, <1>3, <1>4, <1>5, <1>6, <1>7, <1>8, <1>9, <1>10, <1>11, <1>12, <1>13, <1>14,
     <1>15, <1>16, <1>17
  DEF Next, PanelHandler, User, Other, vars, location_search_complete,
      system_time_operation_applied, on_location_coordinate_changed, begin_location_search, OtherStages, OtherCrashes

-----------------------------------------------------------------------------
(***************************************************************************)
(* The spin buttons.                                                       *)
(***************************************************************************)
\* The model's place is the saved one unless an event or a failed read says
\* otherwise, also while a commit is pending.
LEMMA PlaceStep ==
  ASSUME TypeOK, PlaceIsSaved, [Next]_vars
  PROVE  PlaceIsSaved'
<1> USE DEF files, believed
<1>1. CASE policy_file_changed \/ ss_linux_date_time_panel_new
  <2>1. place' = conf /\ UNCHANGED conf
    BY <1>1 DEF policy_file_changed, ss_linux_date_time_panel_new, recover, recover_fails
  <2>2. QED BY <2>1 DEF PlaceIsSaved
<1>2. CASE location_metadata_file_changed \/ retry_locality_recovery
  <2>1. /\ UNCHANGED <<panel, place, conf>>
        /\ "policy" \in events => "policy" \in events'
        /\ "policy" \in unread => "policy" \in unread'
    BY <1>2
    DEF location_metadata_file_changed, retry_locality_recovery, LoadMetadata, recover,
        recover_fails, Handled
  <2>2. QED BY <2>1 DEF PlaceIsSaved, Open
<1>3. CASE commit_location_coordinates \/ on_location_result_activated
  BY <1>3 DEF commit_location_coordinates, on_location_result_activated, Save, PlaceIsSaved
<1>4. CASE commit_location_coordinates_fails \/ on_location_result_activated_fails
  <2>1. PICK step \in Steps, m \in Metadata : SaveFails(step, m)
    BY <1>4, FailsEffect
  <2>2. /\ UNCHANGED <<place, conf>> \/ place' = conf'
        /\ "policy" \in events => "policy" \in events'
        /\ "policy" \in unread => "policy" \in unread'
    BY <2>1 DEF SaveFails
  <2>3. UNCHANGED panel
    BY <1>4 DEF commit_location_coordinates_fails, on_location_result_activated_fails
  <2>4. QED BY <2>2, <2>3 DEF PlaceIsSaved, Open
<1>5. CASE policy_file_unreadable \/ SaveOtherField
  BY <1>5 DEF policy_file_unreadable, SaveOtherField, PlaceIsSaved
<1>6. CASE OtherSaves
  BY <1>6 DEF OtherSaves, Announce, PlaceIsSaved, Open
<1>7. CASE ss_linux_date_time_panel_free
  BY <1>7 DEF ss_linux_date_time_panel_free, PlaceIsSaved, Open
<1>8. CASE ss_linux_date_time_panel_reconcile_system_time_change
  BY <1>8, ReconcileEffect DEF PlaceIsSaved, Open
<1>9. CASE /\ UNCHANGED <<panel, place, conf, unread>>
           /\ "policy" \in events => "policy" \in events'
  BY <1>9 DEF PlaceIsSaved, Open
<1>10. QED
  BY <1>1, <1>2, <1>3, <1>4, <1>5, <1>6, <1>7, <1>8, <1>9
  DEF Next, PanelHandler, User, Other, vars, location_search_complete,
      on_cinnamon_interface_changed, on_location_coordinate_changed, begin_location_search,
      system_time_operation_applied, on_show_date_changed, on_show_date_changed_fails, ChangeDesktop, OtherStages,
      OtherPublishes, OtherCrashes, Announce

\* Every handler that leaves no commit pending and no policy event waiting has
\* filled the spin buttons from the model's place.
LEMMA SpinStep ==
  ASSUME TypeOK, PlaceIsSaved, PlaceIsSaved', SpinShowsSaved, [Next]_vars
  PROVE  SpinShowsSaved'
<1> USE DEF files, believed, edit
<1>1. CASE place' = conf' /\ UNCHANGED reference /\ \E b \in BOOLEAN : sync_controls(b)
  BY <1>1 DEF sync_controls, Fill, SpinShowsSaved
<1>2. CASE UNCHANGED reference /\ \E b \in BOOLEAN : sync_controls(b)
  BY <1>1, <1>2 DEF PlaceIsSaved, SpinShowsSaved
<1>3. CASE timer' \/ "policy" \in events' \cup unread' \/ panel' # "open"
  BY <1>3 DEF SpinShowsSaved, Open
<1>4. CASE /\ UNCHANGED <<panel, place, conf, unread, reference, edit>>
           /\ "policy" \in events => "policy" \in events'
  BY <1>4 DEF SpinShowsSaved, Open
<1>5. CASE policy_file_changed \/ ss_linux_date_time_panel_new
           \/ location_metadata_file_changed \/ commit_location_coordinates_fails
  BY <1>2, <1>5
  DEF TypeOK, policy_file_changed, ss_linux_date_time_panel_new,
      location_metadata_file_changed, commit_location_coordinates_fails
<1>6. CASE retry_locality_recovery
  <2>1. CASE sync_controls(timer)
    BY <1>2, <1>6, <2>1 DEF TypeOK, retry_locality_recovery
  <2>2. CASE recover_fails /\ UNCHANGED <<unread, edit>>
    BY <1>4, <1>6, <2>2 DEF retry_locality_recovery, recover_fails, Handled
  <2>3. QED BY <1>6, <2>1, <2>2 DEF retry_locality_recovery
<1>7. CASE commit_location_coordinates \/ on_location_result_activated \/ SaveOtherField
           \/ policy_file_unreadable
  BY <1>3, <1>7
  DEF commit_location_coordinates, on_location_result_activated, Save, SaveOtherField,
      policy_file_unreadable
<1>8. CASE on_location_result_activated_fails
  <2>1. PICK step \in Steps :
          /\ SaveFails(step, Found(rows.at))
          /\ step \notin {"publish", "rollback"} => UNCHANGED edit
    BY <1>8 DEF on_location_result_activated_fails
  <2>2. CASE step \in {"publish", "rollback"}
    BY <1>3, <2>1, <2>2 DEF SaveFails
  <2>3. CASE step \notin {"publish", "rollback"}
    <3>1. /\ UNCHANGED <<place, conf, events, spin, timer, outdated>>
          /\ "policy" \in unread => "policy" \in unread'
      BY <2>1, <2>3 DEF SaveFails
    <3>2. UNCHANGED <<panel, reference>>
      BY <1>8 DEF on_location_result_activated_fails
    <3>3. QED BY <3>1, <3>2 DEF SpinShowsSaved, Open
  <2>4. QED BY <2>2, <2>3
<1>9. CASE on_location_coordinate_changed \/ ss_linux_date_time_panel_free
  BY <1>3, <1>9 DEF on_location_coordinate_changed, ss_linux_date_time_panel_free
<1>10. CASE OtherSaves
  BY <1>3, <1>10 DEF OtherSaves, Announce, Open
<1>11. CASE system_time_operation_applied
  BY <1>11 DEF system_time_operation_applied, SpinShowsSaved, Open
<1>12. CASE ss_linux_date_time_panel_reconcile_system_time_change
  <2>1. CASE conf' = reference' /\ place' = conf' /\ Fill(reference', timer)
    BY <2>1 DEF Fill, SpinShowsSaved
  <2>2. CASE /\ UNCHANGED <<conf, spin, typed, refilled>>
             /\ outdated => outdated'
             /\ reference' # reference => outdated'
    <3>1. UNCHANGED <<panel, timer, unread>> /\ events \subseteq events'
      BY <1>12, ReconcileEffect
    <3>2. QED BY <2>2, <3>1 DEF SpinShowsSaved, PlaceIsSaved, Open
  <2>3. QED BY <1>12, <2>1, <2>2, ReconcileEffect
<1>13. QED
  BY <1>4, <1>5, <1>6, <1>7, <1>8, <1>9, <1>10, <1>11, <1>12
  DEF Next, PanelHandler, User, Other, vars, location_search_complete,
      on_cinnamon_interface_changed, begin_location_search, on_show_date_changed,
      on_show_date_changed_fails, ChangeDesktop, OtherStages, OtherPublishes, OtherCrashes,
      Announce

\* The value handler records what was typed; code that fills the buttons under
\* a pending commit leaves a mark (location.updating_controls).
LEMMA TypedStep ==
  ASSUME TypeOK, CommitIsTyped, [Next]_vars
  PROVE  CommitIsTyped'
<1> USE DEF edit
<1>1. CASE \E c, b : Fill(c, b)
  BY <1>1 DEF Fill, CommitIsTyped
<1>2. CASE UNCHANGED edit
  BY <1>2 DEF CommitIsTyped
<1>3. CASE timer' = FALSE
  BY <1>3 DEF CommitIsTyped
<1>4. CASE on_location_coordinate_changed
  BY <1>4 DEF on_location_coordinate_changed, CommitIsTyped
<1>5. CASE sync_controls(FALSE) \/ sync_controls(timer)
  <2>1. PICK b \in {FALSE, timer} : sync_controls(b)
    BY <1>5
  <2>2. \/ Fill(place', b) \/ Fill(reference, b)
        \/ UNCHANGED <<spin, typed>> /\ timer' = b /\ refilled' = (b /\ refilled)
    BY <2>1 DEF sync_controls
  <2>3. CASE UNCHANGED <<spin, typed>> /\ timer' = b /\ refilled' = (b /\ refilled)
    <3>1. timer' = FALSE \/ (timer' = timer /\ timer = TRUE /\ refilled' = refilled)
      <4>1. timer \in BOOLEAN /\ refilled \in BOOLEAN
        BY DEF TypeOK
      <4>2. CASE b = FALSE
        BY <2>3, <4>2
      <4>3. CASE b = TRUE
        BY <2>3, <4>1, <4>3
      <4>4. QED BY <4>1, <4>2, <4>3
    <3>2. QED BY <2>3, <3>1 DEF CommitIsTyped
  <2>4. QED BY <1>1, <2>2, <2>3
<1>6. CASE retry_locality_recovery \/ SaveOtherField \/ on_location_result_activated_fails
  BY <1>2, <1>5, <1>6
  DEF retry_locality_recovery, SaveOtherField, on_location_result_activated_fails
<1>7. CASE policy_file_changed \/ location_metadata_file_changed
           \/ commit_location_coordinates_fails \/ on_location_result_activated
           \/ ss_linux_date_time_panel_new
  BY <1>1, <1>5, <1>7
  DEF policy_file_changed, location_metadata_file_changed,
      commit_location_coordinates_fails, on_location_result_activated,
      ss_linux_date_time_panel_new
<1>8. CASE system_time_operation_applied
  BY <1>8 DEF system_time_operation_applied, CommitIsTyped
<1>9. CASE ss_linux_date_time_panel_reconcile_system_time_change
  <2>1. CASE Fill(reference', timer)
    BY <1>1, <2>1
  <2>2. CASE UNCHANGED <<spin, typed, timer, refilled>>
    BY <2>2 DEF CommitIsTyped
  <2>3. QED BY <1>9, <2>1, <2>2, ReconcileEffect
<1>10. QED
  BY <1>2, <1>3, <1>4, <1>6, <1>7, <1>8, <1>9
  DEF Next, PanelHandler, User, Other, vars, policy_file_unreadable,
      commit_location_coordinates, location_search_complete,
      on_cinnamon_interface_changed, ss_linux_date_time_panel_free, begin_location_search,
      on_show_date_changed, on_show_date_changed_fails, ChangeDesktop, OtherStages,
      OtherSaves, OtherPublishes, OtherCrashes

-----------------------------------------------------------------------------
(***************************************************************************)
(* The theorems.                                                           *)
(***************************************************************************)
\* Every step keeps the inductive invariant.
LEMMA InvStep == IInv /\ [Next]_vars => IInv'
<1> SUFFICES ASSUME IInv, [Next]_vars PROVE IInv'
  OBVIOUS
<1>1. TypeOK' /\ SearchesAreMoves'
  BY TypeStep DEF IInv, PanelInvariant
<1>2. RowsAnswerTheNewestSearch' /\ RecoveryIsRetried' /\ NothingOutlivesThePanel'
  BY RowsStep, RetryStep, FreedStep DEF IInv, PanelInvariant
<1>3. PanelAgreesAtRest' /\ PlaceIsSaved' /\ CommitIsTyped'
  BY AgreesStep, PlaceStep, TypedStep DEF IInv, PanelInvariant
<1>4. SpinShowsSaved'
  BY <1>3, SpinStep DEF IInv, PanelInvariant
<1>5. QED BY <1>1, <1>2, <1>3, <1>4 DEF IInv, PanelInvariant

\* The inductive invariant holds throughout every behaviour.
THEOREM Invariance == Spec => []IInv
BY InvInit, InvStep, PTL DEF Spec

\* The panel's state is consistent through every order of its events, its
\* timers, late search answers and another process's change of place.
THEOREM PanelIsConsistent == Spec => []PanelInvariant
<1>1. IInv => PanelInvariant
  BY DEF IInv
<1>2. QED BY <1>1, Invariance, PTL

\* With no commit pending and no policy event waiting the spin buttons show the
\* saved coordinates; without a place they show the zone's reference point, unless
\* it has none or has changed since (sync_controls after every change).
THEOREM SpinIsSaved == Spec => []SpinShowsSaved
<1>1. IInv => SpinShowsSaved
  BY DEF IInv
<1>2. QED BY <1>1, Invariance, PTL

\* A pending commit will save what was typed last, unless the controls were
\* filled under it (on_location_coordinate_changed, location.updating_controls).
THEOREM PendingIsTyped == Spec => []CommitIsTyped
<1>1. IInv => CommitIsTyped
  BY DEF IInv
<1>2. QED BY <1>1, Invariance, PTL
=============================================================================
