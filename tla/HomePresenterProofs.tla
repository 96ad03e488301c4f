------------------------ MODULE HomePresenterProofs -------------------------
(***************************************************************************)
(* Proofs about the presenter and the observer of presentation.conf, for   *)
(* any number of directories above the file, any set of contents, and any  *)
(* bound on changes, failures and days.                                    *)
(***************************************************************************)
EXTENDS HomePresenter, TLAPS

-----------------------------------------------------------------------------
(* The inductive invariant.                                                *)

\* An event of the file itself waits for the main loop.
Announced == \E i \in 1..Len(queue) : queue[i] = "target"

\* A change the presenter has not read and that no gap hid.
Differs == presenter = "live" /\ ~missed /\ Overlooked

\* The file is in a directory, and a live watch is on one that exists.
DirectoriesExist ==
  /\ file # Absent => top = Depth
  /\ watch.live => watch.directory <= top

\* The observer belongs to a live presenter; until it is made it watches
\* nothing, and the page that made it waits for it.
ObserverIsOwned ==
  /\ presenter # "live" =>
       watch = NoWatch /\ queue = <<>> /\ ~rebind /\ retry = 0 /\ busy = Idle /\ ~mapped
  /\ busy.call \in {"load", "new"} => mapped /\ watch = NoWatch /\ queue = <<>>

\* A watch on an ancestor was announced the directory that came to be below it.
\* While bind_monitor is under way only the watch it will keep is of interest.
NearestIsAnnounced ==
  /\ busy = Idle /\ watch.live /\ watch.directory < top /\ ~raced => queue # <<>> \/ rebind
  /\ busy.call \in {"monitor_changed", "retry_bind"} /\ watch.live /\ Bound
       /\ watch.directory < top => queue # <<>>

\* A change is announced to a watch on the file's directory, and keeps being
\* announced until an event of the file is dispatched; a watch on the nearest
\* ancestor was announced the removal of the directory below it.
ChangesAreAnnounced ==
  /\ busy = Idle \/ (busy.call = "monitor_changed" /\ ~busy.target) =>
       (Differs /\ watch.live /\ watch.directory = Depth => Announced)
  /\ busy = Idle /\ Differs /\ watch.live /\ watch.directory = top => queue # <<>>

IInv ==
  /\ PresenterInvariant
  /\ DirectoriesExist
  /\ ObserverIsOwned
  /\ NearestIsAnnounced
  /\ ChangesAreAnnounced

-----------------------------------------------------------------------------
(* The operators.                                                          *)

Events == {"target", "other"}

\* An event that joins the queue is in it, and so is what was there (Add).
LEMMA AddKeeps ==
  ASSUME queue \in Seq(Events), NEW event \in Events
  PROVE  /\ Add(event) \in Seq(Events)
         /\ Add(event) # <<>>
         /\ \E i \in 1..Len(Add(event)) : Add(event)[i] = event
         /\ Announced => \E i \in 1..Len(Add(event)) : Add(event)[i] = "target"
<1>1. CASE queue # <<>> /\ queue[Len(queue)] = event
  <2>1. Len(queue) \in 1..Len(queue)
    BY <1>1
  <2>2. QED BY <1>1, <2>1 DEF Add, Announced
<1>2. CASE ~(queue # <<>> /\ queue[Len(queue)] = event)
  <2>1. Add(event) = Append(queue, event)
    BY <1>2 DEF Add
  <2>2. /\ Len(Append(queue, event)) = Len(queue) + 1 /\ Len(queue) \in Nat
        /\ Append(queue, event)[Len(queue) + 1] = event
        /\ \A i \in 1..Len(queue) : Append(queue, event)[i] = queue[i]
        /\ Append(queue, event) \in Seq(Events) /\ Append(queue, event) # <<>>
    OBVIOUS
  <2>3. Announced => \E i \in 1..Len(Add(event)) : Add(event)[i] = "target"
    BY <2>1, <2>2 DEF Announced
  <2>4. QED BY <2>1, <2>2, <2>3
<1>3. QED BY <1>1, <1>2

\* A notification never takes an event away, and reaches a live watch on one of
\* the directories concerned (Notify).
LEMMA NotifyKeeps ==
  ASSUME queue \in Seq(Events), NEW event \in Events, NEW directories,
         Notify(event, directories)
  PROVE  /\ queue' \in Seq(Events)
         /\ queue # <<>> => queue' # <<>>
         /\ Announced => Announced'
         /\ watch.live /\ watch.directory \in directories =>
              queue' # <<>> /\ (event = "target" => Announced')
<1>1. CASE watch.live /\ watch.directory \in directories
  <2>1. queue' = Add(event)
    BY <1>1 DEF Notify
  <2>2. QED BY <2>1, AddKeeps DEF Announced
<1>2. CASE ~(watch.live /\ watch.directory \in directories)
  <2>1. queue' = queue
    BY <1>2 DEF Notify
  <2>2. QED BY <1>2, <2>1 DEF Announced
<1>3. QED BY <1>1, <1>2

\* Dispatching another event leaves those of the file in the queue
\* (monitor_changed).
LEMMA TailKeeps ==
  ASSUME queue \in Seq(Events), queue # <<>>
  PROVE  /\ Tail(queue) \in Seq(Events)
         /\ Announced /\ Head(queue) # "target" =>
              \E i \in 1..Len(Tail(queue)) : Tail(queue)[i] = "target"
<1>1. /\ Tail(queue) \in Seq(Events) /\ Len(Tail(queue)) = Len(queue) - 1
      /\ \A i \in 1..Len(Tail(queue)) : Tail(queue)[i] = queue[i + 1]
      /\ Head(queue) = queue[1] /\ Len(queue) \in Nat
  OBVIOUS
<1>2. ASSUME Announced, Head(queue) # "target"
      PROVE  \E i \in 1..Len(Tail(queue)) : Tail(queue)[i] = "target"
  <2>1. PICK i \in 1..Len(queue) : queue[i] = "target"
    BY <1>2 DEF Announced
  <2>2. i # 1
    BY <1>1, <1>2, <2>1
  <2>3. i - 1 \in 1..Len(Tail(queue)) /\ Tail(queue)[i - 1] = queue[i]
    BY <1>1, <2>2
  <2>4. QED BY <2>1, <2>3
<1>3. QED BY <1>1, <1>2

\* A load leaves a policy or a timer, never both missing: the presenter holds
\* what the file held, or the load failed and a timer will try again
\* (presenter_reload_policy, schedule_policy_reload_retry).
LEMMA ReloadType ==
  ASSUME TypeOK, NEW pending \in BOOLEAN, pending => retry # 0,
         ReloadSucceeds \/ ReloadFails(pending)
  PROVE  /\ policy' \in AnyPolicy \cup {None} /\ source' \in Policy \cup {Absent, None}
         /\ retry' \in Delay \cup {0} /\ retry_seconds' \in Delay
         /\ unread' \in BOOLEAN
         /\ unread' <=> retry' # 0
         /\ unread' \/ source' = file
<1>1. CASE ReloadSucceeds
  <2>1. Loaded \in AnyPolicy
    BY DefaultAssumption, ContentAssumption
    DEF TypeOK, ObserverTypeOK, Loaded, Exists, AnyPolicy, Native
  <2>2. QED BY <1>1, <2>1 DEF ReloadSucceeds, TypeOK, ObserverTypeOK, Delay
<1>2. CASE ReloadFails(pending)
  <2>1. CASE pending
    BY <1>2, <2>1 DEF ReloadFails, TypeOK
  <2>2. CASE ~pending
    BY <1>2, <2>2 DEF ReloadFails, ScheduleRetry, TypeOK, Delay
  <2>3. QED BY <2>1, <2>2
<1>3. QED BY <1>1, <1>2

\* The labels and the cached date are well typed (refresh_home_temporal,
\* presenter_format_date).
LEMMA RefreshType ==
  ASSUME TypeOK, Refresh
  PROVE  /\ cache' \in Date \cup {None}
         /\ shown' = None \/ shown' \in [clock : Native \cup {"unavailable"},
                                         date : Date \cup [unavailable : Calendar]]
<1>1. CASE policy = None /\ UNCHANGED <<shown, cache>>
  BY <1>1 DEF TypeOK
<1>2. CASE /\ policy # None
           /\ shown' = [clock |-> format_clock, date |-> presenter_format_date]
           /\ cache' = IF resources THEN presenter_format_date ELSE cache
  <2>1. policy \in AnyPolicy /\ policy.calendar \in Calendar
    BY <1>2 DEF TypeOK, AnyPolicy
  <2>2. format_clock \in Native \cup {"unavailable"}
    BY <2>1 DEF TypeOK, AnyPolicy, format_clock
  <2>3. [day |-> day, calendar |-> policy.calendar] \in Date
    BY <2>1 DEF TypeOK, Date
  <2>4. /\ presenter_format_date \in Date \cup [unavailable : Calendar]
        /\ resources => presenter_format_date \in Date
    <3>1. CASE Cached
      BY <3>1 DEF TypeOK, Cached, presenter_format_date
    <3>2. CASE ~Cached
      BY <3>2, <2>1, <2>3 DEF presenter_format_date
    <3>3. QED BY <3>1, <3>2
  <2>5. cache' \in Date \cup {None}
    BY <1>2, <2>4 DEF TypeOK
  <2>6. QED BY <1>2, <2>2, <2>4, <2>5
<1>3. QED BY <1>1, <1>2 DEF Refresh

\* The observer's steps that end in bind_monitor keep its state well typed, and
\* an event goes only with the watch that reported it.
LEMMA WatchType ==
  ASSUME TypeOK, watch_kept \/ watch_fails \/ watch_starts
  PROVE  /\ watch' \in [directory : 0..Depth, live : BOOLEAN, bound : BOOLEAN]
         /\ queue' \in Seq(Events)
         /\ rebind' \in BOOLEAN /\ raced' \in BOOLEAN
         /\ faults' \in 0..MaxFaults
<1>1. CASE watch_kept
  <2>1. rebind' \in BOOLEAN
    BY <1>1, Zenon DEF watch_kept, TypeOK, ObserverTypeOK
  <2>2. QED BY <1>1, <2>1 DEF watch_kept, TypeOK, ObserverTypeOK, Events
<1>2. CASE watch_fails
  BY <1>2, FaultAssumption DEF watch_fails, TypeOK, ObserverTypeOK, Events
<1>3. CASE watch_starts
  <2>1. raced' \in BOOLEAN
    BY <1>3, Zenon DEF watch_starts
  <2>2. busy.directory \in 0..Depth /\ top \in 0..Depth
    BY DEF TypeOK, ObserverTypeOK
  <2>3. watch' \in [directory : 0..Depth, live : BOOLEAN, bound : BOOLEAN]
    BY <1>3, <2>2 DEF watch_starts
  <2>4. queue' = <<>> /\ rebind' = FALSE /\ faults' = faults
    BY <1>3, Zenon DEF watch_starts
  <2>5. queue' \in Seq(Events)
    BY <2>4 DEF Events
  <2>6. faults' \in 0..MaxFaults
    BY <2>4 DEF TypeOK, ObserverTypeOK
  <2>7. rebind' \in BOOLEAN
    BY <2>4, Zenon
  <2>8. QED BY <2>1, <2>3, <2>5, <2>6, <2>7
<1>4. QED BY <1>1, <1>2, <1>3

\* What a step that neither the files nor the observer take part in leaves true
\* of the observer.
LEMMA StillObserved ==
  ASSUME IInv, UNCHANGED <<filesystem, observer>>, presenter' = presenter,
         Differs' => Differs
  PROVE  DirectoriesExist' /\ NearestIsAnnounced' /\ ChangesAreAnnounced'
<1> USE DEF filesystem, observer
<1>1. DirectoriesExist'
  BY DEF IInv, DirectoriesExist
<1>2. NearestIsAnnounced'
  BY DEF IInv, NearestIsAnnounced, Bound
<1>3. Announced' <=> Announced
  BY DEF Announced
<1>4. ChangesAreAnnounced'
  BY <1>3 DEF IInv, ChangesAreAnnounced
<1>5. QED BY <1>1, <1>2, <1>4

\* Every state of a start is consistent.
LEMMA InitIsConsistent == Init => IInv
<1> SUFFICES ASSUME Init
             PROVE  IInv
  OBVIOUS
<1> USE DEF Init, ObserverInit
<1>1. TypeOK
  <2>1. 0 \in 0..Depth /\ 0 \in 0..MaxFaults /\ 0 \in 0..MaxDay /\ 0 \in 0..MaxChanges
    BY DepthAssumption, FaultAssumption, ChangeAssumption
  <2>2. /\ watch \in [directory : 0..Depth, live : BOOLEAN, bound : BOOLEAN]
        /\ busy \in [call : {"none", "load", "new", "monitor_changed", "retry_bind"},
                    target : BOOLEAN, directory : 0..Depth]
    BY <2>1 DEF NoWatch, Idle
  <2>3. queue \in Seq({"target", "other"}) /\ file \in Policy \cup {Absent}
    OBVIOUS
  <2>4. ObserverTypeOK
    BY <2>1, <2>2, <2>3 DEF ObserverTypeOK
  <2>5. desktop \in Native /\ use_24h \in Native
    BY DEF Native
  <2>6. retry \in Delay \cup {0} /\ retry_seconds \in Delay
    BY DEF Delay
  <2>7. QED BY <2>1, <2>4, <2>5, <2>6 DEF TypeOK
<1>2. RetryWhileUnread /\ NothingOutlivesItsOwner
  BY DEF RetryWhileUnread, NothingOutlivesItsOwner
<1>3. DirectoriesExist
  BY DEF DirectoriesExist, NoWatch
<1>4. ObserverIsOwned
  BY DEF ObserverIsOwned, Idle
<1>5. NearestIsAnnounced /\ ChangesAreAnnounced
  BY DEF NearestIsAnnounced, ChangesAreAnnounced, NoWatch, Idle, Differs
<1>6. QED BY <1>1, <1>2, <1>3, <1>4, <1>5 DEF IInv, PresenterInvariant

-----------------------------------------------------------------------------
(* The page, the desktop and the reload timer.                             *)

\* The ticker, and mapping and unmapping a page whose presenter there is.
LEMMA PageStep ==
  ASSUME IInv, refresh_home_temporal \/ home_temporal_mapped \/ home_temporal_unmapped
  PROVE  IInv'
<1> USE DEF filesystem, observer, reloading, desk, page
<1>1. UNCHANGED <<filesystem, observer, readable, desk, presenter, reloading, use_24h,
                  missed, changes>>
  BY DEF refresh_home_temporal, home_temporal_mapped, home_temporal_unmapped
<1>2. /\ cache' \in Date \cup {None}
      /\ shown' = None \/ shown' \in [clock : Native \cup {"unavailable"},
                                      date : Date \cup [unavailable : Calendar]]
  BY RefreshType DEF IInv, PresenterInvariant, TypeOK, refresh_home_temporal,
     home_temporal_mapped, home_temporal_unmapped
<1>3. /\ mapped' \in BOOLEAN /\ ticker' \in BOOLEAN /\ (ticker' => mapped')
      /\ mapped' => mapped \/ presenter = "live"
      /\ busy = Idle
  BY DEF IInv, PresenterInvariant, NothingOutlivesItsOwner, TypeOK, refresh_home_temporal,
     home_temporal_mapped, home_temporal_unmapped
<1>4. TypeOK'
  BY <1>1, <1>2, <1>3 DEF IInv, PresenterInvariant, TypeOK, ObserverTypeOK
<1>5. ObserverIsOwned'
  BY <1>1, <1>3 DEF IInv, ObserverIsOwned, Idle
<1>6. RetryWhileUnread' /\ NothingOutlivesItsOwner'
  BY <1>1, <1>3, <1>5 DEF IInv, PresenterInvariant, RetryWhileUnread, NothingOutlivesItsOwner,
     ObserverIsOwned
<1>7. Differs' => Differs
  BY <1>1 DEF Differs, Overlooked
<1>8. DirectoriesExist' /\ NearestIsAnnounced' /\ ChangesAreAnnounced'
  BY <1>1, <1>7, StillObserved
<1>9. QED BY <1>4, <1>5, <1>6, <1>8 DEF IInv, PresenterInvariant

\* Settings and the desktop, resources and the days.
LEMMA DeskStep ==
  ASSUME IInv,
         on_presenter_settings_changed \/ DesktopChanges \/ ResourcesChange \/ DayPasses
  PROVE  IInv'
<1> USE DEF filesystem, observer, reloading, desk, page
<1>1. UNCHANGED <<filesystem, observer, readable, presenter, reloading, cache, page, missed>>
  BY DEF on_presenter_settings_changed, DesktopChanges, ResourcesChange, DayPasses
<1>2. /\ desktop' \in Native /\ use_24h' \in Native /\ notified' \in BOOLEAN
      /\ resources' \in BOOLEAN /\ day' \in 0..MaxDay /\ changes' \in 0..MaxChanges
  <2>1. CASE on_presenter_settings_changed
    BY <2>1 DEF IInv, PresenterInvariant, TypeOK, on_presenter_settings_changed
  <2>2. CASE DesktopChanges
    <3>1. notified' \in BOOLEAN
      BY <2>2, Zenon DEF DesktopChanges
    <3>2. QED BY <2>2, <3>1, ChangeAssumption
              DEF IInv, PresenterInvariant, TypeOK, DesktopChanges, Count
  <2>3. CASE ResourcesChange
    BY <2>3, ChangeAssumption DEF IInv, PresenterInvariant, TypeOK, ResourcesChange, Count
  <2>4. CASE DayPasses
    BY <2>4, ChangeAssumption DEF IInv, PresenterInvariant, TypeOK, DayPasses
  <2>5. QED BY <2>1, <2>2, <2>3, <2>4
<1>3. TypeOK'
  BY <1>1, <1>2 DEF IInv, PresenterInvariant, TypeOK, ObserverTypeOK
<1>4. ObserverIsOwned' /\ RetryWhileUnread' /\ NothingOutlivesItsOwner'
  BY <1>1 DEF IInv, PresenterInvariant, RetryWhileUnread, NothingOutlivesItsOwner,
     ObserverIsOwned
<1>5. Differs' => Differs
  BY <1>1 DEF Differs, Overlooked
<1>6. DirectoriesExist' /\ NearestIsAnnounced' /\ ChangesAreAnnounced'
  BY <1>1, <1>5, StillObserved
<1>7. QED BY <1>3, <1>4, <1>6 DEF IInv, PresenterInvariant

\* The reload timer reads the file again, or starts the next timer.
LEMMA RetryStep ==
  ASSUME IInv, retry_policy_reload
  PROVE  IInv'
<1> USE DEF filesystem, observer, reloading, desk, page
<1>1. UNCHANGED <<filesystem, observer, readable, desk, presenter, use_24h, cache, page,
                  missed, changes>>
  BY DEF retry_policy_reload
<1>2. presenter = "live"
  BY DEF IInv, ObserverIsOwned, retry_policy_reload
<1>3. /\ policy' \in AnyPolicy \cup {None} /\ source' \in Policy \cup {Absent, None}
      /\ retry' \in Delay \cup {0} /\ retry_seconds' \in Delay /\ unread' \in BOOLEAN
      /\ unread' <=> retry' # 0
      /\ unread' \/ source' = file
  BY ReloadType DEF IInv, PresenterInvariant, retry_policy_reload
<1>4. TypeOK'
  BY <1>1, <1>3 DEF IInv, PresenterInvariant, TypeOK, ObserverTypeOK
<1>5. ObserverIsOwned' /\ RetryWhileUnread' /\ NothingOutlivesItsOwner'
  BY <1>1, <1>2, <1>3 DEF IInv, PresenterInvariant, RetryWhileUnread,
     NothingOutlivesItsOwner, ObserverIsOwned
<1>6. ~Differs'
  BY <1>1, <1>3 DEF Differs, Overlooked
<1>7. DirectoriesExist' /\ NearestIsAnnounced' /\ ChangesAreAnnounced'
  BY <1>1, <1>6, StillObserved
<1>8. QED BY <1>4, <1>5, <1>7 DEF IInv, PresenterInvariant

-----------------------------------------------------------------------------
(* The files.                                                              *)

\* What every change of the directories, of the file or of something beside it
\* does: it leaves the events that wait, and a live watch that is on the file's
\* directory or becomes the ancestor of a nearer one, or the nearest, is told.
Heard ==
  /\ top' \in 0..Depth /\ file' \in Policy \cup {Absent}
  /\ file' # Absent => top' = Depth
  /\ queue' \in Seq(Events)
  /\ queue # <<>> => queue' # <<>>
  /\ Announced => Announced'
  /\ watch' \in [directory : 0..Depth, live : BOOLEAN, bound : BOOLEAN]
  /\ watch = NoWatch => watch' = watch /\ queue' = queue
  /\ watch'.directory = watch.directory /\ watch'.bound = watch.bound
  /\ watch'.live =>
       /\ watch.live
       /\ watch.directory <= top'
       /\ watch.directory < top' => watch.directory < top \/ queue' # <<>>
       /\ watch.directory = Depth => file' = file \/ Announced'
       /\ watch.directory = top' => queue' # <<>> \/ UNCHANGED filesystem

\* A new directory is reported to the one it is in.
LEMMA MakeDirectoryIsHeard ==
  ASSUME IInv, MakeDirectory
  PROVE  Heard
<1> DEFINE Typed == watch \in [directory : 0..Depth, live : BOOLEAN, bound : BOOLEAN]
<1>1. /\ top \in 0..Depth /\ Depth \in Nat /\ queue \in Seq(Events) /\ Typed
      /\ file \in Policy \cup {Absent} /\ watch.directory \in 0..Depth
      /\ file # Absent => top = Depth
      /\ watch.live => watch.directory <= top
  BY DepthAssumption DEF IInv, PresenterInvariant, TypeOK, ObserverTypeOK, Events,
     DirectoriesExist
<1>2. /\ top < Depth /\ top' = top + 1 /\ file' = file /\ watch' = watch
      /\ Notify("other", {top})
  BY DEF MakeDirectory
<1>3. /\ queue' \in Seq(Events)
      /\ queue # <<>> => queue' # <<>>
      /\ Announced => Announced'
      /\ watch.live /\ watch.directory = top => queue' # <<>>
  BY <1>1, <1>2, NotifyKeeps DEF Events
<1>4. watch = NoWatch => queue' = queue
  BY <1>2 DEF Notify, NoWatch
<1>5. QED BY <1>1, <1>2, <1>3, <1>4 DEF Heard

\* The removal of one is reported to it and to the one it was in; its watch dies.
LEMMA RemoveDirectoryIsHeard ==
  ASSUME IInv, RemoveDirectory
  PROVE  Heard
<1> DEFINE Typed == watch \in [directory : 0..Depth, live : BOOLEAN, bound : BOOLEAN]
<1>1. /\ top \in 0..Depth /\ Depth \in Nat /\ queue \in Seq(Events) /\ Typed
      /\ watch.directory \in 0..Depth
      /\ watch.live => watch.directory <= top
  BY DepthAssumption DEF IInv, PresenterInvariant, TypeOK, ObserverTypeOK, Events,
     DirectoriesExist
<1>2. /\ top > 0 /\ top' = top - 1 /\ file = Absent /\ file' = file
      /\ watch' = IF watch.directory = top THEN [watch EXCEPT !.live = FALSE] ELSE watch
      /\ Notify("other", {top, top - 1})
  BY DEF RemoveDirectory
<1>3. /\ queue' \in Seq(Events)
      /\ queue # <<>> => queue' # <<>>
      /\ Announced => Announced'
      /\ watch.live /\ watch.directory = top - 1 => queue' # <<>>
  BY <1>1, <1>2, NotifyKeeps DEF Events
<1>4. /\ watch' \in [directory : 0..Depth, live : BOOLEAN, bound : BOOLEAN]
      /\ watch'.directory = watch.directory /\ watch'.bound = watch.bound
  BY <1>1, <1>2
<1>5. watch'.live => watch.live /\ watch.directory # top
  BY <1>1, <1>2
<1>6. watch = NoWatch => watch' = watch /\ queue' = queue
  BY <1>1, <1>2 DEF Notify, NoWatch
<1>7. watch'.live => watch.directory <= top' /\ ~(watch.directory < top' /\ watch.directory >= top)
  BY <1>1, <1>2, <1>5
<1>8. QED BY <1>1, <1>2, <1>3, <1>4, <1>5, <1>6, <1>7 DEF Heard

\* A change of the file, or of its permissions, is reported as one of the file.
LEMMA ChangeFileIsHeard ==
  ASSUME IInv, top' = top, watch' = watch, top = Depth, Notify("target", {Depth}),
         file' \in Policy \cup {Absent}
  PROVE  Heard
<1> DEFINE Typed == watch \in [directory : 0..Depth, live : BOOLEAN, bound : BOOLEAN]
<1>1. /\ top \in 0..Depth /\ Depth \in Nat \ {0} /\ queue \in Seq(Events) /\ Typed
      /\ watch.directory \in 0..Depth
      /\ watch.live => watch.directory <= top
  BY DepthAssumption DEF IInv, PresenterInvariant, TypeOK, ObserverTypeOK, Events,
     DirectoriesExist
<1>2. /\ queue' \in Seq(Events)
      /\ queue # <<>> => queue' # <<>>
      /\ Announced => Announced'
      /\ watch.live /\ watch.directory = Depth => queue' # <<>> /\ Announced'
  BY <1>1, NotifyKeeps DEF Events
<1>3. watch = NoWatch => queue' = queue
  BY DEF Notify, NoWatch
<1>4. QED BY <1>1, <1>2, <1>3 DEF Heard

\* So is anything else, as an event of something else.
LEMMA UnrelatedIsHeard ==
  ASSUME IInv, Unrelated
  PROVE  Heard
<1> DEFINE Typed == watch \in [directory : 0..Depth, live : BOOLEAN, bound : BOOLEAN]
<1>1. /\ top \in 0..Depth /\ Depth \in Nat /\ queue \in Seq(Events) /\ Typed
      /\ file \in Policy \cup {Absent} /\ watch.directory \in 0..Depth
      /\ file # Absent => top = Depth
      /\ watch.live => watch.directory <= top
  BY DepthAssumption DEF IInv, PresenterInvariant, TypeOK, ObserverTypeOK, Events,
     DirectoriesExist
<1>2. /\ watch.live /\ watch # NoWatch /\ queue' = Add("other")
      /\ UNCHANGED <<top, file, watch>>
  BY DEF Unrelated, NoWatch
<1>3. queue' \in Seq(Events) /\ queue' # <<>> /\ (Announced => Announced')
  BY <1>1, <1>2, AddKeeps DEF Events, Announced
<1>4. QED BY <1>1, <1>2, <1>3 DEF Heard

\* What is heard keeps every part of the invariant.
LEMMA HeardStep ==
  ASSUME IInv, Heard, readable' \in BOOLEAN, changes' \in 0..MaxChanges,
         UNCHANGED <<target_exists, rebind, busy, faults, raced, desk, presenter,
                     reloading, use_24h, cache, page, missed>>
  PROVE  IInv'
<1> USE DEF reloading, desk, page
<1>1. TypeOK'
  BY DEF IInv, PresenterInvariant, TypeOK, ObserverTypeOK, Events, Heard
<1>2. DirectoriesExist'
  BY DEF Heard, DirectoriesExist
<1>3. ObserverIsOwned'
  BY DEF IInv, ObserverIsOwned, Heard
<1>4. RetryWhileUnread' /\ NothingOutlivesItsOwner'
  BY <1>3 DEF IInv, PresenterInvariant, RetryWhileUnread, NothingOutlivesItsOwner,
     ObserverIsOwned, NoWatch
<1>5. NearestIsAnnounced'
  BY DEF IInv, NearestIsAnnounced, Heard, Bound
<1>6. file' = file /\ Differs' => Differs
  BY DEF Differs, Overlooked
<1>7. ASSUME busy = Idle \/ (busy.call = "monitor_changed" /\ ~busy.target),
             Differs', watch'.live, watch'.directory = Depth
      PROVE  Announced'
  BY <1>6, <1>7 DEF IInv, ChangesAreAnnounced, Heard
<1>8. ASSUME busy = Idle, Differs', watch'.live, watch'.directory = top'
      PROVE  queue' # <<>>
  BY <1>6, <1>8 DEF IInv, ChangesAreAnnounced, Heard, filesystem
<1>9. ChangesAreAnnounced'
  BY <1>7, <1>8 DEF ChangesAreAnnounced
<1>10. QED BY <1>1, <1>2, <1>3, <1>4, <1>5, <1>9 DEF IInv, PresenterInvariant

\* Another process changes the files, or the permissions of the policy file.
LEMMA FilesStep ==
  ASSUME IInv, FilesChange \/ PermissionsChange
  PROVE  IInv'
<1>1. changes' \in 0..MaxChanges
  BY ChangeAssumption
  DEF FilesChange, PermissionsChange, Count, IInv, PresenterInvariant, TypeOK
<1>2. readable' \in BOOLEAN
  <2>1. readable' = readable \/ readable' = ~readable
    BY Zenon DEF FilesChange, PermissionsChange
  <2>2. readable \in BOOLEAN
    BY DEF IInv, PresenterInvariant, TypeOK
  <2>3. QED BY <2>1, <2>2
<1>3. UNCHANGED <<target_exists, rebind, busy, faults, raced, desk, presenter, reloading,
                  use_24h, cache, page, missed>>
  BY DEF FilesChange, PermissionsChange
<1>4. file \in Policy \cup {Absent} /\ (file # Absent => top = Depth)
  BY DEF IInv, PresenterInvariant, TypeOK, ObserverTypeOK, DirectoriesExist
<1>5. Heard
  <2>1. CASE PermissionsChange
    BY <1>4, <2>1, ChangeFileIsHeard DEF PermissionsChange, Exists, filesystem
  <2>2. ASSUME NEW content \in Policy \cup {Absent}, ChangeFile(content)
        PROVE  Heard
    BY <2>2, ChangeFileIsHeard DEF ChangeFile
  <2>3. QED BY <2>1, <2>2, MakeDirectoryIsHeard, RemoveDirectoryIsHeard, UnrelatedIsHeard
            DEF FilesChange
<1>6. QED BY <1>1, <1>2, <1>3, <1>5, HeardStep

\* GIO finds the directory of a dead watch again; what was changed meanwhile has
\* gone by unwatched.
LEMMA GioStep ==
  ASSUME IInv, GioResumes
  PROVE  IInv'
<1> USE DEF reloading, desk, page
<1>1. /\ watch.bound /\ watch.directory <= top
      /\ watch' = [watch EXCEPT !.live = TRUE]
      /\ queue' = Add("other")
      /\ UNCHANGED <<top, file>>
  BY DEF GioResumes, monitor_resumes
<1>2. UNCHANGED <<target_exists, rebind, busy, faults, raced, readable, desk, presenter,
                  reloading, use_24h, cache, page, changes>>
  BY DEF GioResumes
<1>3. missed' \in BOOLEAN
  BY Zenon DEF GioResumes, IInv, PresenterInvariant, TypeOK
<1>4. queue' \in Seq({"target", "other"}) /\ queue' # <<>>
  BY <1>1, AddKeeps DEF Events, IInv, PresenterInvariant, TypeOK, ObserverTypeOK
<1>5. watch' \in [directory : 0..Depth, live : BOOLEAN, bound : BOOLEAN] /\ watch # NoWatch
  <2>1. watch \in [directory : 0..Depth, live : BOOLEAN, bound : BOOLEAN]
    BY DEF IInv, PresenterInvariant, TypeOK, ObserverTypeOK
  <2>2. watch' \in [directory : 0..Depth, live : BOOLEAN, bound : BOOLEAN]
    BY <1>1, <2>1
  <2>3. watch # NoWatch
    BY <1>1 DEF NoWatch
  <2>4. QED BY <2>2, <2>3
<1>6. TypeOK'
  BY <1>1, <1>2, <1>3, <1>4, <1>5 DEF IInv, PresenterInvariant, TypeOK, ObserverTypeOK
<1>7. presenter = "live"
  BY <1>5 DEF IInv, ObserverIsOwned
<1>8. RetryWhileUnread' /\ NothingOutlivesItsOwner'
  BY <1>2, <1>7 DEF IInv, PresenterInvariant, RetryWhileUnread, NothingOutlivesItsOwner
<1>9. DirectoriesExist'
  BY <1>1, <1>5 DEF IInv, PresenterInvariant, TypeOK, ObserverTypeOK, DirectoriesExist
<1>10. ObserverIsOwned'
  BY <1>2, <1>5, <1>7 DEF IInv, ObserverIsOwned
<1>11. NearestIsAnnounced'
  BY <1>4 DEF NearestIsAnnounced
<1>12. ~Differs'
  <2>1. missed' <=> missed \/ Overlooked
    BY Zenon DEF GioResumes
  <2>2. Overlooked' <=> Overlooked
    BY <1>1, <1>2 DEF Overlooked
  <2>3. QED BY <2>1, <2>2 DEF Differs
<1>13. ChangesAreAnnounced'
  BY <1>12 DEF ChangesAreAnnounced
<1>14. QED BY <1>6, <1>8, <1>9, <1>10, <1>11, <1>13 DEF IInv, PresenterInvariant

-----------------------------------------------------------------------------
(* The life of the presenter.                                              *)

\* Home is shown for the first time: the policy is loaded, and no observer is
\* there yet.
LEMMA PresenterNewStep ==
  ASSUME IInv, ss_home_temporal_presenter_new
  PROVE  IInv'
<1> USE DEF filesystem, reloading, desk, page
<1>1. /\ busy = Idle /\ presenter = "none" /\ mapped' = TRUE /\ presenter' = "live"
      /\ use_24h' = desktop /\ busy' = [Idle EXCEPT !.call = "load"]
      /\ UNCHANGED <<filesystem, watch, queue, target_exists, rebind, faults, raced, readable,
                     desk, cache, ticker, shown, missed, changes>>
  BY DEF ss_home_temporal_presenter_new
<1>2. watch = NoWatch /\ queue = <<>> /\ ~rebind /\ retry = 0
  BY <1>1 DEF IInv, ObserverIsOwned
<1>3. /\ policy' \in AnyPolicy \cup {None} /\ source' \in Policy \cup {Absent, None}
      /\ retry' \in Delay \cup {0} /\ retry_seconds' \in Delay /\ unread' \in BOOLEAN
      /\ unread' <=> retry' # 0
  <2>1. ReloadSucceeds \/ ReloadFails(FALSE)
    BY DEF ss_home_temporal_presenter_new
  <2>2. QED BY <2>1, ReloadType DEF IInv, PresenterInvariant
<1>4. /\ busy' \in [call : {"none", "load", "new", "monitor_changed", "retry_bind"},
                    target : BOOLEAN, directory : 0..Depth]
      /\ busy'.call = "load" /\ busy' # Idle
  <2>1. busy' = [call |-> "load", target |-> FALSE, directory |-> 0]
    BY <1>1 DEF Idle
  <2>2. QED BY <2>1, DepthAssumption DEF Idle
<1>5. TypeOK'
  BY <1>1, <1>3, <1>4 DEF IInv, PresenterInvariant, TypeOK, ObserverTypeOK
<1>6. RetryWhileUnread' /\ NothingOutlivesItsOwner'
  BY <1>1, <1>3 DEF RetryWhileUnread, NothingOutlivesItsOwner
<1>7. DirectoriesExist' /\ ObserverIsOwned'
  BY <1>1, <1>2 DEF IInv, DirectoriesExist, ObserverIsOwned
<1>8. NearestIsAnnounced' /\ ChangesAreAnnounced'
  BY <1>4 DEF NearestIsAnnounced, ChangesAreAnnounced
<1>9. QED BY <1>5, <1>6, <1>7, <1>8 DEF IInv, PresenterInvariant

\* The observer is made, up to the choice of its first directory.
LEMMA ObserveStep ==
  ASSUME IInv, observe
  PROVE  IInv'
<1> USE DEF filesystem, reloading, desk, page
<1>1. /\ busy.call = "load"
      /\ busy' = [call |-> "new", target |-> FALSE, directory |-> top]
      /\ UNCHANGED <<filesystem, watch, queue, rebind, faults, raced, readable, desk, presenter,
                     reloading, use_24h, cache, page, missed, changes>>
  BY DEF observe, ss_policy_file_observer_new, Begin, nearest_existing_directory
<1>2. target_exists' \in BOOLEAN
  BY Zenon DEF observe, ss_policy_file_observer_new, Exists
<1>3. presenter = "live" /\ mapped /\ watch = NoWatch /\ queue = <<>>
  BY <1>1 DEF IInv, ObserverIsOwned, Idle
<1>4. /\ busy' \in [call : {"none", "load", "new", "monitor_changed", "retry_bind"},
                    target : BOOLEAN, directory : 0..Depth]
      /\ busy'.call = "new" /\ busy' # Idle
  BY <1>1 DEF Idle, IInv, PresenterInvariant, TypeOK, ObserverTypeOK
<1>5. TypeOK'
  BY <1>1, <1>2, <1>4 DEF IInv, PresenterInvariant, TypeOK, ObserverTypeOK
<1>6. RetryWhileUnread' /\ NothingOutlivesItsOwner'
  BY <1>1 DEF IInv, PresenterInvariant, RetryWhileUnread, NothingOutlivesItsOwner
<1>7. DirectoriesExist' /\ ObserverIsOwned'
  BY <1>1, <1>3 DEF IInv, DirectoriesExist, ObserverIsOwned
<1>8. NearestIsAnnounced' /\ ChangesAreAnnounced'
  BY <1>4 DEF NearestIsAnnounced, ChangesAreAnnounced
<1>9. QED BY <1>5, <1>6, <1>7, <1>8 DEF IInv, PresenterInvariant

\* The window is destroyed, and every timer and monitor goes with it.
LEMMA PresenterFreeStep ==
  ASSUME IInv, ss_home_temporal_presenter_free
  PROVE  IInv'
<1> USE DEF filesystem, reloading, desk, page
<1>1. /\ busy = Idle /\ presenter' = "freed" /\ retry' = 0
      /\ mapped' = FALSE /\ ticker' = FALSE
      /\ watch' = NoWatch /\ queue' = <<>> /\ rebind' = FALSE
      /\ UNCHANGED <<filesystem, target_exists, busy, faults, raced, readable, desk, policy,
                     source, retry_seconds, unread, use_24h, cache, shown, missed, changes>>
  BY DEF ss_home_temporal_presenter_free, ss_policy_file_observer_free
<1>2. watch' \in [directory : 0..Depth, live : BOOLEAN, bound : BOOLEAN]
  BY <1>1, DepthAssumption DEF NoWatch
<1>3. TypeOK'
  <2>1. queue' \in Seq({"target", "other"}) /\ retry' \in Delay \cup {0}
    BY <1>1
  <2>2. rebind' \in BOOLEAN /\ mapped' \in BOOLEAN /\ ticker' \in BOOLEAN
    BY <1>1, Zenon
  <2>3. ObserverTypeOK'
    BY <1>1, <1>2, <2>1, <2>2 DEF IInv, PresenterInvariant, TypeOK, ObserverTypeOK
  <2>4. presenter' \in {"none", "live", "freed"}
    BY <1>1
  <2>5. QED BY <1>1, <2>1, <2>2, <2>3, <2>4 DEF IInv, PresenterInvariant, TypeOK
<1>4. RetryWhileUnread' /\ NothingOutlivesItsOwner'
  BY <1>1 DEF RetryWhileUnread, NothingOutlivesItsOwner, NoWatch
<1>5. DirectoriesExist' /\ ObserverIsOwned'
  BY <1>1 DEF IInv, DirectoriesExist, ObserverIsOwned, NoWatch, Idle
<1>6. NearestIsAnnounced' /\ ChangesAreAnnounced'
  BY <1>1 DEF NearestIsAnnounced, ChangesAreAnnounced, NoWatch
<1>7. QED BY <1>3, <1>4, <1>5, <1>6 DEF IInv, PresenterInvariant

-----------------------------------------------------------------------------
(* The calls of the observer.                                              *)

\* An event is dispatched; those of the file that wait stay, if it is not one.
LEMMA MonitorChangedStep ==
  ASSUME IInv, monitor_changed,
         UNCHANGED <<filesystem, readable, desk, presenter, reloading, use_24h, cache, page,
                     missed, changes>>
  PROVE  IInv'
<1> USE DEF filesystem, reloading, desk, page
<1>1. /\ busy = Idle /\ queue # <<>> /\ queue' = Tail(queue)
      /\ UNCHANGED <<watch, target_exists, rebind, faults, raced>>
  BY DEF monitor_changed
<1>2. /\ queue \in Seq(Events) /\ top \in 0..Depth
      /\ busy' = [call |-> "monitor_changed", target |-> Head(queue) = "target", directory |-> top]
  BY DEF monitor_changed, Begin, nearest_existing_directory, IInv, PresenterInvariant, TypeOK,
     ObserverTypeOK, Events
<1>3. /\ busy' \in [call : {"none", "load", "new", "monitor_changed", "retry_bind"},
                    target : BOOLEAN, directory : 0..Depth]
      /\ busy'.call = "monitor_changed" /\ busy'.directory = top
  <2>1. (Head(queue) = "target") \in BOOLEAN
    BY Zenon
  <2>2. QED BY <1>2, <2>1
<1>4. busy'.target <=> Head(queue) = "target"
  BY <1>2
<1>5. busy' # Idle
  BY <1>3 DEF Idle
<1>6. /\ queue' \in Seq({"target", "other"})
      /\ Announced /\ ~busy'.target => Announced'
  BY <1>1, <1>2, <1>4, TailKeeps DEF Events, Announced
<1>7. presenter = "live"
  BY <1>1 DEF IInv, ObserverIsOwned
<1>8. TypeOK'
  BY <1>1, <1>3, <1>6 DEF IInv, PresenterInvariant, TypeOK, ObserverTypeOK
<1>9. RetryWhileUnread' /\ NothingOutlivesItsOwner'
  BY <1>7 DEF IInv, PresenterInvariant, RetryWhileUnread, NothingOutlivesItsOwner
<1>10. DirectoriesExist' /\ ObserverIsOwned'
  BY <1>1, <1>3, <1>7 DEF IInv, DirectoriesExist, ObserverIsOwned
<1>11. NearestIsAnnounced'
  BY <1>1, <1>2, <1>3, <1>5 DEF NearestIsAnnounced, Bound, IInv, PresenterInvariant, TypeOK,
     ObserverTypeOK
<1>12. Differs' => Differs
  BY DEF Differs, Overlooked
<1>13. ChangesAreAnnounced'
  BY <1>1, <1>5, <1>6, <1>12 DEF IInv, ChangesAreAnnounced
<1>14. QED BY <1>8, <1>9, <1>10, <1>11, <1>13 DEF IInv, PresenterInvariant

\* The retry timer fires.
LEMMA RetryBindStep ==
  ASSUME IInv, retry_bind,
         UNCHANGED <<filesystem, readable, desk, presenter, reloading, use_24h, cache, page,
                     missed, changes>>
  PROVE  IInv'
<1> USE DEF filesystem, reloading, desk, page
<1>1. /\ busy = Idle /\ rebind
      /\ UNCHANGED <<watch, queue, target_exists, rebind, faults, raced>>
      /\ busy' = [call |-> "retry_bind", target |-> FALSE, directory |-> top]
  BY DEF retry_bind, Begin, nearest_existing_directory
<1>2. /\ busy' \in [call : {"none", "load", "new", "monitor_changed", "retry_bind"},
                    target : BOOLEAN, directory : 0..Depth]
      /\ busy'.call = "retry_bind" /\ busy'.directory = top
  BY <1>1 DEF IInv, PresenterInvariant, TypeOK, ObserverTypeOK
<1>3. busy' # Idle
  BY <1>2 DEF Idle
<1>4. presenter = "live"
  BY <1>1 DEF IInv, ObserverIsOwned
<1>5. TypeOK'
  BY <1>1, <1>2 DEF IInv, PresenterInvariant, TypeOK, ObserverTypeOK
<1>6. RetryWhileUnread' /\ NothingOutlivesItsOwner'
  BY <1>4 DEF IInv, PresenterInvariant, RetryWhileUnread, NothingOutlivesItsOwner
<1>7. DirectoriesExist' /\ ObserverIsOwned'
  BY <1>1, <1>2, <1>4 DEF IInv, DirectoriesExist, ObserverIsOwned
<1>8. NearestIsAnnounced'
  BY <1>1, <1>2, <1>3 DEF NearestIsAnnounced, Bound, IInv, PresenterInvariant, TypeOK,
     ObserverTypeOK
<1>9. ChangesAreAnnounced'
  BY <1>2, <1>3 DEF ChangesAreAnnounced
<1>10. QED BY <1>5, <1>6, <1>7, <1>8, <1>9 DEF IInv, PresenterInvariant

\* bind_monitor returns: the watch it leaves is the nearest, or was overtaken, or
\* has an event or a retry to wait for.
LEMMA BindKeeps ==
  ASSUME IInv, UNCHANGED filesystem, busy' = Idle,
         \/ watch_kept /\ busy.call \in {"monitor_changed", "retry_bind"}
         \/ watch_fails \/ watch_starts
  PROVE  DirectoriesExist' /\ NearestIsAnnounced'
<1> USE DEF filesystem
<1>1. /\ top \in Nat /\ busy.directory \in Nat
      /\ busy'.call = "none"
  BY DepthAssumption DEF IInv, PresenterInvariant, TypeOK, ObserverTypeOK, Idle
<1>2. CASE watch_kept /\ busy.call \in {"monitor_changed", "retry_bind"}
  BY <1>1, <1>2 DEF watch_kept, IInv, DirectoriesExist, NearestIsAnnounced
<1>3. CASE watch_fails
  BY <1>1, <1>3 DEF watch_fails, IInv, DirectoriesExist, NearestIsAnnounced
<1>4. CASE watch_starts
  <2>1. /\ watch'.directory = busy.directory
        /\ watch'.live <=> busy.directory <= top
    BY <1>4 DEF watch_starts
  <2>2. raced' <=> busy.directory # top
    BY <1>4, Zenon DEF watch_starts
  <2>3. QED BY <1>1, <2>1, <2>2 DEF IInv, DirectoriesExist, NearestIsAnnounced
<1>5. QED BY <1>2, <1>3, <1>4

\* The observer is made: whatever changed since the policy was loaded is missed.
LEMMA ObserverMadeStep ==
  ASSUME IInv, observer_made
  PROVE  IInv'
<1> USE DEF filesystem, reloading, desk, page
<1>1. /\ busy.call = "new" /\ busy' = Idle /\ ticker' = TRUE
      /\ watch_starts \/ watch_fails
      /\ UNCHANGED <<filesystem, target_exists, readable, desk, presenter, reloading, use_24h,
                     mapped, changes>>
  BY DEF observer_made
<1>2. presenter = "live" /\ mapped
  BY <1>1 DEF IInv, ObserverIsOwned, Idle
<1>3. missed' \in BOOLEAN
  BY Zenon DEF observer_made, Overlooked
<1>4. missed' <=> Overlooked
  BY Zenon DEF observer_made
<1>5. /\ cache' \in Date \cup {None}
      /\ shown' = None \/ shown' \in [clock : Native \cup {"unavailable"},
                                      date : Date \cup [unavailable : Calendar]]
  BY RefreshType DEF observer_made, IInv, PresenterInvariant
<1>6. /\ watch' \in [directory : 0..Depth, live : BOOLEAN, bound : BOOLEAN]
      /\ queue' \in Seq(Events)
      /\ rebind' \in BOOLEAN /\ raced' \in BOOLEAN
      /\ faults' \in 0..MaxFaults
  BY <1>1, WatchType DEF IInv, PresenterInvariant
<1>7. busy' \in [call : {"none", "load", "new", "monitor_changed", "retry_bind"},
                 target : BOOLEAN, directory : 0..Depth]
  BY <1>1, DepthAssumption DEF Idle
<1>8. TypeOK'
  BY <1>1, <1>3, <1>5, <1>6, <1>7
  DEF IInv, PresenterInvariant, TypeOK, ObserverTypeOK, Events
<1>9. RetryWhileUnread' /\ NothingOutlivesItsOwner'
  BY <1>1, <1>2 DEF IInv, PresenterInvariant, RetryWhileUnread, NothingOutlivesItsOwner
<1>10. DirectoriesExist' /\ NearestIsAnnounced'
  BY <1>1, BindKeeps
<1>11. ObserverIsOwned'
  BY <1>1, <1>2 DEF ObserverIsOwned, Idle
<1>12. ~Differs'
  BY <1>1, <1>4 DEF Differs, Overlooked
<1>13. ChangesAreAnnounced'
  BY <1>12 DEF ChangesAreAnnounced
<1>14. QED BY <1>8, <1>9, <1>10, <1>11, <1>13 DEF IInv, PresenterInvariant

\* The retry is over: nobody has looked at the file.
LEMMA RetryBindReturnsStep ==
  ASSUME IInv, retry_bind_returns
  PROVE  IInv'
<1> USE DEF filesystem, reloading, desk, page
<1>1. /\ busy.call = "retry_bind" /\ busy' = Idle
      /\ watch_kept \/ watch_fails \/ watch_starts
      /\ UNCHANGED <<filesystem, target_exists, readable, desk, presenter, reloading, use_24h,
                     cache, page, changes>>
  BY DEF retry_bind_returns
<1>2. presenter = "live"
  BY <1>1 DEF IInv, ObserverIsOwned, Idle
<1>3. missed' \in BOOLEAN
  BY Zenon DEF retry_bind_returns
<1>4. missed' <=> missed \/ Overlooked
  BY Zenon DEF retry_bind_returns
<1>5. /\ watch' \in [directory : 0..Depth, live : BOOLEAN, bound : BOOLEAN]
      /\ queue' \in Seq(Events)
      /\ rebind' \in BOOLEAN /\ raced' \in BOOLEAN
      /\ faults' \in 0..MaxFaults
  BY <1>1, WatchType DEF IInv, PresenterInvariant
<1>6. busy' \in [call : {"none", "load", "new", "monitor_changed", "retry_bind"},
                 target : BOOLEAN, directory : 0..Depth]
  BY <1>1, DepthAssumption DEF Idle
<1>7. TypeOK'
  BY <1>1, <1>3, <1>5, <1>6
  DEF IInv, PresenterInvariant, TypeOK, ObserverTypeOK, Events
<1>8. RetryWhileUnread' /\ NothingOutlivesItsOwner'
  BY <1>1, <1>2 DEF IInv, PresenterInvariant, RetryWhileUnread, NothingOutlivesItsOwner
<1>9. DirectoriesExist' /\ NearestIsAnnounced'
  BY <1>1, BindKeeps
<1>10. ObserverIsOwned'
  BY <1>1, <1>2 DEF ObserverIsOwned, Idle
<1>11. ~Differs'
  BY <1>1, <1>4 DEF Differs, Overlooked
<1>12. ChangesAreAnnounced'
  BY <1>11 DEF ChangesAreAnnounced
<1>13. QED BY <1>7, <1>8, <1>9, <1>10, <1>12 DEF IInv, PresenterInvariant

\* The event has been handled.  What it did not report, and was not missed, has
\* left another event in the queue: the file was there and still is, so the watch
\* did not move, and only an event of the file can tell the difference.
LEMMA MonitorChangedReturnsStep ==
  ASSUME IInv, monitor_changed_returns
  PROVE  IInv'
<1> USE DEF filesystem, reloading, desk, page
<1> DEFINE rebound == ~Bound /\ faults' = faults
<1>1. /\ busy.call = "monitor_changed" /\ busy' = Idle
      /\ watch_kept \/ watch_fails \/ watch_starts
      /\ target_exists' = Exists
      /\ UNCHANGED <<filesystem, readable, desk, presenter, use_24h, cache, page, changes>>
      /\ \/ Reports(rebound) /\ on_policy_file_changed /\ missed' = FALSE
         \/ ~Reports(rebound) /\ UNCHANGED reloading /\ missed' = (missed \/ Misremembered)
  BY DEF monitor_changed_returns
<1>2. presenter = "live"
  BY <1>1 DEF IInv, ObserverIsOwned, Idle
<1>3. missed' \in BOOLEAN /\ target_exists' \in BOOLEAN
  <2>1. (missed \/ Misremembered) \in BOOLEAN /\ Exists \in BOOLEAN
    BY Zenon DEF Exists
  <2>2. missed' = FALSE \/ missed' = (missed \/ Misremembered)
    BY <1>1, Zenon
  <2>3. QED BY <1>1, <2>1, <2>2, Zenon
<1>4. /\ watch' \in [directory : 0..Depth, live : BOOLEAN, bound : BOOLEAN]
      /\ queue' \in Seq(Events)
      /\ rebind' \in BOOLEAN /\ raced' \in BOOLEAN
      /\ faults' \in 0..MaxFaults
  BY <1>1, WatchType DEF IInv, PresenterInvariant
<1>5. busy' \in [call : {"none", "load", "new", "monitor_changed", "retry_bind"},
                 target : BOOLEAN, directory : 0..Depth]
  BY <1>1, DepthAssumption DEF Idle
<1>6. /\ policy' \in AnyPolicy \cup {None} /\ source' \in Policy \cup {Absent, None}
      /\ retry' \in Delay \cup {0} /\ retry_seconds' \in Delay /\ unread' \in BOOLEAN
      /\ unread' <=> retry' # 0
      /\ Reports(rebound) => unread' \/ source' = file
  <2>1. CASE on_policy_file_changed
    BY <2>1, ReloadType DEF on_policy_file_changed, IInv, PresenterInvariant
  <2>2. CASE ~Reports(rebound) /\ UNCHANGED reloading
    BY <1>2, <2>2 DEF IInv, PresenterInvariant, TypeOK, RetryWhileUnread
  <2>3. QED BY <1>1, <2>1, <2>2
<1>7. TypeOK'
  BY <1>1, <1>3, <1>4, <1>5, <1>6
  DEF IInv, PresenterInvariant, TypeOK, ObserverTypeOK, Events
<1>8. RetryWhileUnread' /\ NothingOutlivesItsOwner'
  BY <1>1, <1>2, <1>6 DEF IInv, PresenterInvariant, RetryWhileUnread, NothingOutlivesItsOwner
<1>9. DirectoriesExist' /\ NearestIsAnnounced'
  BY <1>1, BindKeeps
<1>10. ObserverIsOwned'
  BY <1>1, <1>2 DEF ObserverIsOwned, Idle
<1>11. ASSUME Differs'
       PROVE  /\ ~busy.target /\ file # Absent /\ top = Depth
              /\ Differs /\ watch' = watch /\ queue' = queue
  <2>1. ~Reports(rebound)
    BY <1>1, <1>6, <1>11 DEF Differs, Overlooked
  <2>2. /\ missed' <=> missed \/ Misremembered
        /\ unread' = unread /\ source' = source
    BY <1>1, <2>1, Zenon
  <2>3. Differs /\ ~Misremembered /\ Overlooked
    BY <1>1, <1>11, <2>2 DEF Differs, Overlooked
  <2>4. /\ target_exists <=> source # Absent
        /\ target_exists <=> file # Absent
        /\ ~busy.target
        /\ ~(rebound /\ file # Absent)
    BY <1>1, <2>1, <2>3 DEF Reports, Misremembered, Exists, IInv, PresenterInvariant, TypeOK,
       ObserverTypeOK
  <2>5. file # Absent /\ ~rebound
    BY <2>3, <2>4 DEF Overlooked
  <2>6. ~watch_starts
    BY <2>5 DEF watch_starts
  <2>7. watch' = watch /\ queue' = queue
    BY <1>1, <2>6 DEF watch_kept, watch_fails
  <2>8. QED BY <2>3, <2>4, <2>5, <2>7 DEF IInv, DirectoriesExist
<1>12. ChangesAreAnnounced'
  <2>1. ASSUME Differs', watch'.live, watch'.directory = Depth
        PROVE  Announced'
    <3>1. Announced
      BY <1>1, <1>11, <2>1 DEF IInv, ChangesAreAnnounced
    <3>2. QED BY <1>11, <2>1, <3>1 DEF Announced
  <2>2. ASSUME Announced', queue' \in Seq(Events)
        PROVE  queue' # <<>>
    BY <2>2 DEF Announced
  <2>3. QED BY <1>1, <1>4, <1>11, <2>1, <2>2 DEF ChangesAreAnnounced
<1>13. QED BY <1>7, <1>8, <1>9, <1>10, <1>12 DEF IInv, PresenterInvariant

-----------------------------------------------------------------------------
(* The theorems.                                                           *)

\* Every step of the presenter, the observer and the environment keeps the
\* invariant.
LEMMA StepIsConsistent == IInv /\ [Next]_vars => IInv'
<1> SUFFICES ASSUME IInv, [Next]_vars
             PROVE  IInv'
  OBVIOUS
<1>1. CASE Presented
  <2>1. CASE /\ monitor_changed \/ retry_bind
             /\ UNCHANGED <<filesystem, readable, desk, presenter, reloading, use_24h, cache,
                            page, missed, changes>>
    BY <2>1, MonitorChangedStep, RetryBindStep
  <2>2. QED BY <1>1, <2>1, ObserveStep, ObserverMadeStep, MonitorChangedReturnsStep,
               RetryBindReturnsStep, RetryStep, DeskStep
            DEF Presented
<1>2. CASE refresh_home_temporal \/ home_temporal_mapped \/ home_temporal_unmapped
  BY <1>2, PageStep
<1>3. CASE ss_home_temporal_presenter_new
  BY <1>3, PresenterNewStep
<1>4. CASE ss_home_temporal_presenter_free
  BY <1>4, PresenterFreeStep
<1>5. CASE FilesChange \/ PermissionsChange
  BY <1>5, FilesStep
<1>6. CASE DesktopChanges \/ ResourcesChange \/ DayPasses
  BY <1>6, DeskStep
<1>7. CASE GioResumes
  BY <1>7, GioStep
<1>8. CASE UNCHANGED vars
  BY <1>8 DEF vars, filesystem, observer, desk, reloading, page, IInv, PresenterInvariant,
     TypeOK, ObserverTypeOK, RetryWhileUnread, NothingOutlivesItsOwner, DirectoriesExist,
     ObserverIsOwned, NearestIsAnnounced, ChangesAreAnnounced, Announced, Differs, Overlooked,
     Bound
<1>9. QED BY <1>1, <1>2, <1>3, <1>4, <1>5, <1>6, <1>7, <1>8 DEF Next

\* The inductive invariant holds in every state of every run.
THEOREM Invariance == Spec => []IInv
<1>1. Init => IInv
  BY InitIsConsistent
<1>2. IInv /\ [Next]_vars => IInv'
  BY StepIsConsistent
<1>3. QED BY <1>1, <1>2, PTL DEF Spec

\* The presenter's timers are those its last load calls for, and timers and
\* monitors go with it (schedule_policy_reload_retry, ss_policy_file_observer_free).
THEOREM PresenterIsConsistent == Spec => []PresenterInvariant
<1>1. IInv => PresenterInvariant
  BY DEF IInv
<1>2. QED BY <1>1, Invariance, PTL

\* With nothing pending the watch is on the file's nearest directory, for a file
\* at any depth (monitor_changed, bind_monitor).
THEOREM WatchIsNearest == Spec => []WatchesNearest
<1>1. ASSUME IInv
      PROVE  WatchesNearest
  <2>1. SUFFICES ASSUME presenter = "live", ObserverAtRest, ~raced
                 PROVE  watch.directory >= top
    BY DEF WatchesNearest
  <2>2. watch.directory \in Nat /\ top \in Nat
    BY <1>1, DepthAssumption DEF IInv, PresenterInvariant, TypeOK, ObserverTypeOK
  <2>3. ~(watch.live /\ watch.directory < top)
    BY <1>1, <2>1 DEF IInv, NearestIsAnnounced, ObserverAtRest
  <2>4. QED BY <2>1, <2>2, <2>3 DEF ObserverAtRest
<1>2. QED BY <1>1, Invariance, PTL

\* With nothing pending the presenter holds the policy of the file, but for the
\* gaps that HomeAgreesAtRest names (on_policy_file_changed).
THEOREM HomeAgrees == Spec => []HomeAgreesAtRest
<1>1. ASSUME IInv
      PROVE  HomeAgreesAtRest
  <2>1. SUFFICES ASSUME presenter = "live", ObserverAtRest, retry = 0, Watching, ~missed
                 PROVE  source = file
    BY DEF HomeAgreesAtRest
  <2>2. ~unread
    BY <1>1, <2>1 DEF IInv, PresenterInvariant, RetryWhileUnread
  <2>3. ~Differs
    BY <1>1, <2>1 DEF IInv, ChangesAreAnnounced, ObserverAtRest, Watching
  <2>4. QED BY <2>1, <2>2, <2>3 DEF Differs, Overlooked
<1>2. QED BY <1>1, Invariance, PTL
=============================================================================
