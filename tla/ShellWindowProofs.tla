------------------------- MODULE ShellWindowProofs --------------------------
(***************************************************************************)
(* Proofs about ShellWindow, for any modes and calendars and any number of *)
(* days, moves and faults: the timers of a page run exactly while GTK has  *)
(* it mapped, and rows, pages, module and status cards stay consistent.    *)
(***************************************************************************)
EXTENDS ShellWindow, TLAPS

(***************************************************************************)
(* The inductive invariant.                                                *)
(***************************************************************************)
\* Nothing is loaded before the window opens or after it closes.
LoadedInWindow ==
  /\ window = "none" => ~loaded /\ content = "empty" /\ leaving = None
  /\ window \in {"closing", "closed"} => ~loaded

IInv ==
  /\ ShellInvariant
  /\ VisiblePageTicks
  /\ LoadedInWindow

-----------------------------------------------------------------------------
(***************************************************************************)
(* The operators.                                                          *)
(***************************************************************************)
\* The labels of a refreshed preview are well typed
\* (ss_linux_date_time_preview_refresh).
LEMMA HandleType ==
  ASSUME PreviewTypeOK, policy' \in Policy, ensure_clock_presentation
  PROVE  handle' \in Handle
<1>1. [mode |-> policy'.mode, ok |-> resources] \in Handle
  BY DEF PreviewTypeOK, Policy, Handle
<1>2. QED BY <1>1 DEF PreviewTypeOK, ensure_clock_presentation

\* The same for the date and its cache.
LEMMA RefreshType ==
  ASSUME PreviewTypeOK, policy' \in Policy, ss_linux_date_time_preview_refresh
  PROVE  /\ handle' \in Handle \cup {None}
         /\ clock_label' \in Handle \cup {None}
         /\ date_label' \in DateText \cup {None}
         /\ cache' \in DateText \cup {None}
<1>1. handle' \in Handle /\ clock_label' = handle'
  BY HandleType DEF ss_linux_date_time_preview_refresh
<1>2. [calendar |-> policy'.calendar, day |-> day, ok |-> resources] \in DateText
  BY DEF PreviewTypeOK, Policy, DateText
<1>3. date_label' \in DateText \cup {None} /\ cache' \in DateText \cup {None}
  BY <1>2 DEF PreviewTypeOK, ss_linux_date_time_preview_refresh, FormatDate
<1>4. QED BY <1>1, <1>3

\* What the Home page is told when what is mapped changes.
LEMMA HomeSignals ==
  ASSUME Signals
  PROVE  \/ Mapped("home")' /\ home_mapped
         \/ Mapped("home") /\ ~Mapped("home")' /\ home_unmapped
         \/ (Mapped("home")' => Mapped("home")) /\ (Mapped("home") => Mapped("home")')
            /\ UNCHANGED <<clock, status, status_label>>
BY DEF Signals

\* What the panel is told.
LEMMA PanelSignals ==
  ASSUME Signals
  PROVE  \/ PanelMapped' /\ on_panel_mapped
         \/ PanelMapped /\ ~PanelMapped' /\ on_panel_unmapped
         \/ (PanelMapped' => PanelMapped) /\ (PanelMapped => PanelMapped')
            /\ UNCHANGED <<timer, labels>>
BY DEF Signals

\* Opening a page shows and selects it; the module is there exactly when its
\* panel is (shell_open_page, ensure_module_page).
LEMMA OpenPage ==
  ASSUME TypeOK, NEW p \in Page, shell_open_page(p),
         loaded => opened, loaded <=> content = "panel"
  PROVE  /\ visible' = p /\ selected' = p
         /\ leaving' \in Page \cup {None} /\ leaving' # visible'
         /\ loaded' => opened'
         /\ loaded' <=> content' = "panel"
         /\ loaded' \in BOOLEAN /\ opened' \in BOOLEAN /\ idle' \in BOOLEAN
         /\ content' \in {"empty", "unavailable", "panel"}
         /\ faults' \in 0..MaxFaults
<1>1. visible' = p /\ selected' = p /\ leaving' \in Page \cup {None} /\ leaving' # visible'
  BY DEF TypeOK, shell_open_page
<1>2. CASE UNCHANGED <<module, idle, faults>>
  BY <1>1, <1>2 DEF TypeOK, PreviewTypeOK, module
<1>3. CASE opened' = TRUE /\ ensure_module_page
  <2>1. CASE UNCHANGED <<loaded, content, idle, faults>>
    BY <1>1, <1>3, <2>1 DEF TypeOK, PreviewTypeOK
  <2>2. CASE loaded' = TRUE /\ content' = "panel" /\ idle' = TRUE /\ UNCHANGED faults
    BY <1>1, <1>3, <2>2 DEF TypeOK, PreviewTypeOK
  <2>3. CASE /\ ~loaded /\ faults < MaxFaults /\ faults' = faults + 1
             /\ content' = "unavailable" /\ UNCHANGED <<loaded, idle>>
    <3>1. faults' \in 0..MaxFaults
      BY <2>3, ShellBounds DEF TypeOK
    <3>2. QED BY <1>1, <1>3, <2>3, <3>1 DEF TypeOK, PreviewTypeOK
  <2>4. QED BY <1>3, <2>1, <2>2, <2>3 DEF ensure_module_page
<1>4. QED BY <1>2, <1>3 DEF shell_open_page

\* After the signals the timers are those of what is mapped, and Home's status
\* is current.
LEMMA SignalsKeep ==
  ASSUME StatusIsCurrent, VisiblePageTicks, Signals, UNCHANGED desktop
  PROVE  StatusIsCurrent' /\ VisiblePageTicks'
<1>1. (clock' <=> Mapped("home")') /\ (status' <=> Mapped("home")')
  <2>1. CASE Mapped("home")' /\ home_mapped
    BY <2>1 DEF home_mapped
  <2>2. CASE ~Mapped("home")' /\ home_unmapped
    BY <2>2 DEF home_unmapped
  <2>3. CASE (Mapped("home")' <=> Mapped("home")) /\ UNCHANGED <<clock, status>>
    BY <2>3 DEF VisiblePageTicks
  <2>4. QED BY <2>1, <2>2, <2>3, HomeSignals
<1>2. StatusIsCurrent'
  <2>1. CASE Mapped("home")' /\ home_mapped
    <3>1. status_label' = desktop
      BY <2>1 DEF home_mapped, VisiblePageTicks, StatusIsCurrent
    <3>2. QED BY <3>1 DEF StatusIsCurrent
  <2>2. CASE ~Mapped("home")'
    BY <2>2 DEF StatusIsCurrent
  <2>3. CASE (Mapped("home")' <=> Mapped("home")) /\ UNCHANGED status_label
    BY <2>3 DEF StatusIsCurrent
  <2>4. QED BY <2>1, <2>2, <2>3, HomeSignals
<1>3. timer' <=> PanelMapped'
  <2>1. CASE PanelMapped' /\ on_panel_mapped
    BY <2>1 DEF on_panel_mapped
  <2>2. CASE ~PanelMapped' /\ on_panel_unmapped
    BY <2>2 DEF on_panel_unmapped
  <2>3. CASE (PanelMapped' <=> PanelMapped) /\ UNCHANGED timer
    BY <2>3 DEF VisiblePageTicks
  <2>4. QED BY <2>1, <2>2, <2>3, PanelSignals
<1>4. QED BY <1>1, <1>2, <1>3 DEF VisiblePageTicks

\* The signals keep the types of what they touch.
LEMMA SignalsType ==
  ASSUME TypeOK, Signals, UNCHANGED <<world, desktop>>
  PROVE  /\ clock' \in BOOLEAN /\ status' \in BOOLEAN /\ status_label' \in BOOLEAN \cup {None}
         /\ timer' \in BOOLEAN
         /\ handle' \in Handle \cup {None}
         /\ clock_label' \in Handle \cup {None}
         /\ date_label' \in DateText \cup {None}
         /\ cache' \in DateText \cup {None}
<1>1. clock' \in BOOLEAN /\ status' \in BOOLEAN
  <2>1. \/ clock' = TRUE /\ status' = TRUE
        \/ clock' = FALSE /\ status' = FALSE
        \/ clock' = clock /\ status' = status
    BY HomeSignals DEF home_mapped, home_unmapped
  <2>2. QED BY <2>1 DEF TypeOK
<1>2. status_label' \in BOOLEAN \cup {None}
  <2>1. status_label' = status_label \/ status_label' = desktop
    BY HomeSignals DEF home_mapped, home_unmapped
  <2>2. QED BY <2>1 DEF TypeOK
<1>3. timer' \in BOOLEAN
  <2>1. timer' = TRUE \/ timer' = FALSE \/ timer' = timer
    BY PanelSignals DEF on_panel_mapped, on_panel_unmapped
  <2>2. QED BY <2>1 DEF TypeOK, PreviewTypeOK
<1>4. UNCHANGED labels \/ ss_linux_date_time_preview_refresh
  BY PanelSignals DEF on_panel_mapped, on_panel_unmapped
<1>5. /\ handle' \in Handle \cup {None}
      /\ clock_label' \in Handle \cup {None}
      /\ date_label' \in DateText \cup {None}
      /\ cache' \in DateText \cup {None}
  <2>1. PreviewTypeOK /\ policy' \in Policy
    BY DEF TypeOK, PreviewTypeOK, world
  <2>2. QED BY <1>4, <2>1, RefreshType DEF PreviewTypeOK, labels
<1>6. QED BY <1>1, <1>2, <1>3, <1>5

-----------------------------------------------------------------------------
(***************************************************************************)
(* The steps.                                                              *)
(***************************************************************************)
\* The initial state satisfies the inductive invariant.
LEMMA InvInit == Init => IInv
<1> SUFFICES ASSUME Init PROVE IInv
  OBVIOUS
<1>1. PreviewTypeOK
  <2>1. day \in 0..MaxDay
    BY DayAssumption DEF Init, PreviewInit
  <2>2. QED BY <2>1 DEF Init, PreviewInit, PreviewTypeOK
<1>2. TypeOK
  <2>1. moves \in 0..MaxMoves /\ faults \in 0..MaxFaults
    BY ShellBounds DEF Init
  <2>2. leaving # visible
    BY NoPageAssumption DEF Init, Page
  <2>3. QED BY <1>1, <2>1, <2>2 DEF Init, TypeOK, Page, Row
<1>3. SelectionShowsPage /\ ModuleMatchesPage /\ StatusIsCurrent /\ NothingOutlivesTheWindow
  BY DEF Init, SelectionShowsPage, ModuleMatchesPage, StatusIsCurrent, Mapped,
         NothingOutlivesTheWindow, Open
<1>4. VisiblePageTicks /\ LoadedInWindow
  BY DEF Init, PreviewInit, VisiblePageTicks, LoadedInWindow, Mapped, PanelMapped
<1>5. QED BY <1>2, <1>3, <1>4 DEF IInv, ShellInvariant

\* Clicks, activations, Home's button and the first page: a page is opened, or
\* another kind of row selected, and the pages are told.
LEMMA NavigationStep ==
  ASSUME IInv,
         \/ ss_shell_window_activate
         \/ \E row \in Row : on_navigation_selected(row)
         \/ on_navigation_activated
         \/ open_date_time_from_home
  PROVE  IInv'
<1> USE DEF ss_shell_window_activate, on_navigation_selected, on_navigation_activated,
            open_date_time_from_home
<1>1. /\ TypeOK /\ StatusIsCurrent /\ VisiblePageTicks
      /\ loaded => opened
      /\ loaded <=> content = "panel"
  BY DEF IInv, ShellInvariant, ModuleMatchesPage, LoadedInWindow, Open
<1>2. window' = "open" /\ Signals /\ UNCHANGED <<world, desktop>>
  BY DEF Open
<1>3. moves' \in 0..MaxMoves /\ launchable' \in BOOLEAN
  <2>1. (Move \/ UNCHANGED moves) /\ (launchable' \in BOOLEAN \/ UNCHANGED launchable)
    OBVIOUS
  <2>2. moves' \in 0..MaxMoves
    BY <1>1, <2>1, ShellBounds DEF TypeOK, Move
  <2>3. QED BY <1>1, <2>1, <2>2 DEF TypeOK
<1>4. \/ \E p \in Page : shell_open_page(p)
      \/ /\ selected' \in Row \ Page
         /\ UNCHANGED <<visible, leaving, module, idle, faults>>
  BY <1>1 DEF TypeOK, Page
<1>5. /\ selected' \in Page => selected' = visible'
      /\ visible' \in Page /\ selected' \in Row
      /\ leaving' \in Page \cup {None} /\ leaving' # visible'
      /\ loaded' => opened'
      /\ loaded' <=> content' = "panel"
      /\ loaded' \in BOOLEAN /\ opened' \in BOOLEAN /\ idle' \in BOOLEAN
      /\ content' \in {"empty", "unavailable", "panel"}
      /\ faults' \in 0..MaxFaults
  <2>1. CASE \E p \in Page : shell_open_page(p)
    <3>1. PICK p \in Page : shell_open_page(p)
      BY <2>1
    <3>2. QED BY <1>1, <3>1, OpenPage DEF Row
  <2>2. CASE selected' \in Row \ Page /\ UNCHANGED <<visible, leaving, module, idle, faults>>
    BY <1>1, <2>2 DEF TypeOK, PreviewTypeOK, module
  <2>3. QED BY <1>4, <2>1, <2>2
<1>6. TypeOK'
  <2>1. PreviewTypeOK'
    BY <1>1, <1>2, <1>5, SignalsType DEF TypeOK, PreviewTypeOK, world
  <2>2. clock' \in BOOLEAN /\ status' \in BOOLEAN /\ status_label' \in BOOLEAN \cup {None}
    BY <1>1, <1>2, SignalsType
  <2>3. desktop' \in BOOLEAN
    BY <1>1, <1>2 DEF TypeOK
  <2>4. QED BY <1>2, <1>3, <1>5, <2>1, <2>2, <2>3 DEF TypeOK
<1>7. StatusIsCurrent' /\ VisiblePageTicks'
  BY <1>1, <1>2, SignalsKeep
<1>8. SelectionShowsPage' /\ ModuleMatchesPage' /\ NothingOutlivesTheWindow' /\ LoadedInWindow'
  BY <1>2, <1>5
  DEF SelectionShowsPage, ModuleMatchesPage, NothingOutlivesTheWindow, LoadedInWindow
<1>9. QED BY <1>6, <1>7, <1>8 DEF IInv, ShellInvariant

\* Taking the selection away changes no page.
LEMMA DeselectStep ==
  ASSUME IInv, navigation_deselected
  PROVE  IInv'
<1>1. TypeOK /\ ShellInvariant /\ VisiblePageTicks /\ LoadedInWindow
  BY DEF IInv, ShellInvariant
<1>2. /\ selected' = None /\ moves' = moves + 1 /\ moves < MaxMoves
      /\ UNCHANGED <<policy, day, resources, timer, idle, handle, clock_label, date_label, cache,
                     window, visible, leaving, loaded, content, opened, clock, status, desktop,
                     status_label, launchable, faults>>
  BY DEF navigation_deselected, Move, world, preview, labels, module, home
<1>3. TypeOK'
  <2>1. PreviewTypeOK'
    BY <1>1, <1>2 DEF TypeOK, PreviewTypeOK
  <2>2. moves' \in 0..MaxMoves
    BY <1>1, <1>2, ShellBounds DEF TypeOK
  <2>3. QED BY <1>1, <1>2, <2>1, <2>2 DEF TypeOK
<1>4. SelectionShowsPage' /\ ModuleMatchesPage'
  BY <1>1, <1>2, NoPageAssumption
  DEF ShellInvariant, SelectionShowsPage, ModuleMatchesPage, Open
<1>5. StatusIsCurrent' /\ NothingOutlivesTheWindow' /\ VisiblePageTicks' /\ LoadedInWindow'
  BY <1>1, <1>2
  DEF ShellInvariant, StatusIsCurrent, NothingOutlivesTheWindow, VisiblePageTicks,
      LoadedInWindow, Mapped, PanelMapped
<1>6. QED BY <1>3, <1>4, <1>5 DEF IInv, ShellInvariant

\* The end of a cross-fade unmaps the page that was left.
LEMMA TransitionStep ==
  ASSUME IInv, TransitionEnds
  PROVE  IInv'
<1>1. TypeOK /\ StatusIsCurrent /\ VisiblePageTicks /\ ModuleMatchesPage /\ SelectionShowsPage
  BY DEF IInv, ShellInvariant
<1>2. /\ window = "open" /\ leaving' = None /\ Signals
      /\ UNCHANGED <<world, window, visible, selected, loaded, content, opened, idle, desktop,
                     launchable, moves, faults>>
  BY DEF TransitionEnds, Open, module
<1>3. TypeOK'
  <2>1. PreviewTypeOK'
    BY <1>1, <1>2, SignalsType DEF TypeOK, PreviewTypeOK, world
  <2>2. clock' \in BOOLEAN /\ status' \in BOOLEAN /\ status_label' \in BOOLEAN \cup {None}
    BY <1>1, <1>2, SignalsType
  <2>3. leaving' # visible'
    BY <1>1, <1>2, NoPageAssumption DEF TypeOK
  <2>4. QED BY <1>1, <1>2, <2>1, <2>2, <2>3 DEF TypeOK
<1>4. StatusIsCurrent' /\ VisiblePageTicks'
  BY <1>1, <1>2, SignalsKeep
<1>5. SelectionShowsPage' /\ ModuleMatchesPage' /\ NothingOutlivesTheWindow' /\ LoadedInWindow'
  BY <1>1, <1>2
  DEF SelectionShowsPage, ModuleMatchesPage, NothingOutlivesTheWindow, LoadedInWindow, Open
<1>6. QED BY <1>3, <1>4, <1>5 DEF IInv, ShellInvariant

\* Closing frees the panel before GTK frees the widgets (on_close_requested).
LEMMA CloseStep ==
  ASSUME IInv, on_close_requested \/ Destroyed
  PROVE  IInv'
<1>1. TypeOK /\ StatusIsCurrent /\ VisiblePageTicks /\ NothingOutlivesTheWindow /\ LoadedInWindow
  BY DEF IInv, ShellInvariant
<1>2. CASE on_close_requested
  <2>1. /\ window = "open" /\ window' = "closing" /\ loaded' = FALSE
        /\ timer' = FALSE /\ idle' = FALSE /\ handle' = None /\ cache' = None
        /\ UNCHANGED <<world, clock_label, date_label, visible, leaving, selected, content,
                       opened, clock, status, desktop, status_label, launchable, moves, faults>>
    BY <1>2
    DEF on_close_requested, Open, ss_linux_date_time_preview_dispose, pages, home
  <2>2. PreviewTypeOK'
    BY <1>1, <2>1 DEF TypeOK, PreviewTypeOK, world
  <2>3. TypeOK'
    BY <1>1, <2>1, <2>2 DEF TypeOK
  <2>4. Mapped("home")' <=> Mapped("home")
    BY <2>1 DEF Mapped
  <2>5. StatusIsCurrent' /\ VisiblePageTicks'
    BY <1>1, <2>1, <2>4 DEF StatusIsCurrent, VisiblePageTicks, PanelMapped
  <2>6. SelectionShowsPage' /\ ModuleMatchesPage' /\ NothingOutlivesTheWindow'
        /\ LoadedInWindow'
    BY <2>1
    DEF SelectionShowsPage, ModuleMatchesPage, NothingOutlivesTheWindow, LoadedInWindow, Open
  <2>7. QED BY <2>3, <2>5, <2>6 DEF IInv, ShellInvariant
<1>3. CASE Destroyed
  <2>1. /\ window = "closing" /\ window' = "closed" /\ clock' = FALSE /\ status' = FALSE
        /\ UNCHANGED <<world, preview, visible, leaving, selected, loaded, content, opened,
                       desktop, status_label, launchable, moves, faults>>
    BY <1>3 DEF Destroyed, home_unmapped, pages, module
  <2>2. TypeOK'
    <3>1. UNCHANGED <<policy, day, resources, timer, idle, handle, clock_label, date_label,
                      cache>>
      BY <2>1 DEF world, preview, labels
    <3>2. PreviewTypeOK'
      BY <1>1, <3>1 DEF TypeOK, PreviewTypeOK
    <3>3. QED BY <1>1, <2>1, <3>2 DEF TypeOK
  <2>3. ~timer' /\ ~idle' /\ ~loaded'
    BY <1>1, <2>1 DEF NothingOutlivesTheWindow, LoadedInWindow, preview
  <2>4. StatusIsCurrent' /\ VisiblePageTicks'
    BY <2>1, <2>3 DEF StatusIsCurrent, VisiblePageTicks, PanelMapped, Mapped
  <2>5. SelectionShowsPage' /\ ModuleMatchesPage' /\ NothingOutlivesTheWindow'
        /\ LoadedInWindow'
    BY <2>1, <2>3
    DEF SelectionShowsPage, ModuleMatchesPage, NothingOutlivesTheWindow, LoadedInWindow, Open
  <2>6. QED BY <2>2, <2>4, <2>5 DEF IInv, ShellInvariant
<1>4. QED BY <1>2, <1>3

\* Timers, idle callbacks and policy changes touch the preview, not the pages;
\* they leave the timer of a mapped panel running and start no other.
LEMMA PreviewSteps ==
  ASSUME IInv, PreviewStep \/ PolicyStep
  PROVE  IInv'
<1>1. TypeOK /\ PreviewTypeOK /\ ShellInvariant /\ VisiblePageTicks /\ LoadedInWindow
  BY DEF IInv, ShellInvariant, TypeOK
<1>2. /\ UNCHANGED <<window, visible, leaving, selected, loaded, content, opened, clock, status,
                     desktop, status_label, launchable, faults>>
      /\ UNCHANGED moves \/ Move
  BY DEF PreviewStep, PolicyStep, pages, module, home
<1>3. policy' \in Policy /\ UNCHANGED <<day, resources>>
  <2>1. \/ UNCHANGED world
        \/ PolicyChanges(PanelMapped)
        \/ ModeReconciled(PanelMapped)
    BY DEF PreviewStep, PolicyStep, IdleRefresh, preview_timer_once
  <2>2. CASE UNCHANGED world
    BY <1>1, <2>2 DEF PreviewTypeOK, world
  <2>3. CASE PolicyChanges(PanelMapped)
    BY <2>3 DEF PolicyChanges
  <2>4. CASE ModeReconciled(PanelMapped)
    BY <1>1, <2>4 DEF ModeReconciled, PreviewTypeOK, Policy
  <2>5. QED BY <2>1, <2>2, <2>3, <2>4
<1>4. /\ handle' \in Handle \cup {None} /\ clock_label' \in Handle \cup {None}
      /\ date_label' \in DateText \cup {None} /\ cache' \in DateText \cup {None}
  <2>1. \/ ss_linux_date_time_preview_refresh
        \/ /\ UNCHANGED handle \/ ensure_clock_presentation
           /\ UNCHANGED <<clock_label, date_label, cache>>
    BY DEF PreviewStep, PolicyStep, IdleRefresh, preview_timer_once, PolicyChanges,
           ModeReconciled, Restart
  <2>2. CASE ss_linux_date_time_preview_refresh
    BY <1>1, <1>3, <2>2, RefreshType
  <2>3. CASE UNCHANGED <<clock_label, date_label, cache>> /\ ensure_clock_presentation
    BY <1>1, <1>3, <2>3, HandleType DEF PreviewTypeOK
  <2>4. CASE UNCHANGED <<handle, clock_label, date_label, cache>>
    BY <1>1, <2>4 DEF PreviewTypeOK
  <2>5. QED BY <2>1, <2>2, <2>3, <2>4
<1>5. (idle' = FALSE \/ UNCHANGED idle)
  BY DEF PreviewStep, PolicyStep, IdleRefresh, preview_timer_once, PolicyChanges,
         ModeReconciled
<1>6. timer' \in BOOLEAN /\ (timer' <=> PanelMapped)
  <2>1. timer \in BOOLEAN /\ (timer <=> PanelMapped)
    BY <1>1 DEF PreviewTypeOK, VisiblePageTicks
  <2>2. \/ timer' = timer
        \/ timer' = PanelMapped
        \/ timer' = (timer \/ PanelMapped)
        \/ timer' = TRUE /\ PanelMapped
    BY DEF PreviewStep, PolicyStep, IdleRefresh, preview_timer_once, PolicyChanges,
           ModeReconciled, Restart
  <2>3. PanelMapped \in BOOLEAN
    BY <1>1 DEF PanelMapped, Mapped, TypeOK
  <2>4. CASE PanelMapped
    <3>1. timer' = TRUE
      BY <2>1, <2>2, <2>3, <2>4
    <3>2. QED BY <2>4, <3>1
  <2>5. CASE ~PanelMapped
    <3>1. timer' = FALSE
      BY <2>1, <2>2, <2>3, <2>5
    <3>2. QED BY <2>5, <3>1
  <2>6. QED BY <2>4, <2>5
<1>7. TypeOK'
  <2>1. moves' \in 0..MaxMoves
    BY <1>1, <1>2, ShellBounds DEF TypeOK, Move
  <2>2. PreviewTypeOK'
    BY <1>1, <1>3, <1>4, <1>5, <1>6 DEF PreviewTypeOK
  <2>3. QED BY <1>1, <1>2, <2>1, <2>2 DEF TypeOK
<1>8. PanelMapped' <=> PanelMapped
  BY <1>2 DEF PanelMapped, Mapped
<1>9. VisiblePageTicks' /\ StatusIsCurrent'
  BY <1>1, <1>2, <1>6, <1>8 DEF VisiblePageTicks, ShellInvariant, StatusIsCurrent, Mapped
<1>10. NothingOutlivesTheWindow'
  BY <1>1, <1>2, <1>5, <1>6
  DEF ShellInvariant, NothingOutlivesTheWindow, LoadedInWindow, PanelMapped
<1>11. SelectionShowsPage' /\ ModuleMatchesPage' /\ LoadedInWindow'
  BY <1>1, <1>2
  DEF ShellInvariant, SelectionShowsPage, ModuleMatchesPage, LoadedInWindow, Open
<1>12. QED BY <1>7, <1>9, <1>10, <1>11 DEF IInv, ShellInvariant

\* The desktop's theme and network, the day and the installed resources change
\* outside the program; Home hears of the first while its status timer runs.
LEMMA EnvironmentStep ==
  ASSUME IInv, DesktopChanges \/ WorldChanges \/ UNCHANGED vars
  PROVE  IInv'
<1>1. TypeOK /\ ShellInvariant /\ VisiblePageTicks /\ LoadedInWindow
  BY DEF IInv, ShellInvariant
<1>2. /\ UNCHANGED <<preview, window, visible, leaving, selected, loaded, content, opened,
                     clock, status, launchable, faults, policy>>
      /\ \/ UNCHANGED <<desktop, status_label>>
         \/ desktop' = ~desktop /\ status_label' = IF status THEN desktop' ELSE status_label
      /\ UNCHANGED moves \/ Move
      /\ UNCHANGED day \/ (day < MaxDay /\ day' = day + 1)
      /\ UNCHANGED resources \/ resources' = ~resources
  BY DEF DesktopChanges, WorldChanges, home_status_source_changed, vars, pages, module, home,
         world
<1>3. TypeOK'
  <2>1. moves' \in 0..MaxMoves /\ day' \in 0..MaxDay
    BY <1>1, <1>2, ShellBounds, DayAssumption DEF TypeOK, PreviewTypeOK, Move
  <2>2. resources' \in BOOLEAN /\ desktop' \in BOOLEAN
    BY <1>1, <1>2 DEF TypeOK, PreviewTypeOK
  <2>3. status_label' \in BOOLEAN \cup {None}
    BY <1>1, <1>2, <2>2 DEF TypeOK
  <2>4. PreviewTypeOK'
    <3>1. UNCHANGED <<timer, idle, handle, clock_label, date_label, cache>>
      BY <1>2 DEF preview, labels
    <3>2. QED BY <1>1, <1>2, <2>1, <2>2, <3>1 DEF TypeOK, PreviewTypeOK
  <2>5. QED BY <1>1, <1>2, <2>1, <2>2, <2>3, <2>4 DEF TypeOK
<1>4. UNCHANGED <<timer, idle>>
  BY <1>2 DEF preview
<1>5. VisiblePageTicks' /\ NothingOutlivesTheWindow'
  BY <1>1, <1>2, <1>4
  DEF VisiblePageTicks, ShellInvariant, NothingOutlivesTheWindow, Mapped, PanelMapped
<1>6. StatusIsCurrent'
  <2>1. status => status_label = desktop
    BY <1>1 DEF VisiblePageTicks, ShellInvariant, StatusIsCurrent
  <2>2. status => status_label' = desktop'
    BY <1>2, <2>1
  <2>3. QED BY <1>2, <1>5, <2>2 DEF VisiblePageTicks, StatusIsCurrent
<1>7. SelectionShowsPage' /\ ModuleMatchesPage' /\ LoadedInWindow'
  BY <1>1, <1>2
  DEF ShellInvariant, SelectionShowsPage, ModuleMatchesPage, LoadedInWindow, Open
<1>8. QED BY <1>3, <1>5, <1>6, <1>7 DEF IInv, ShellInvariant

-----------------------------------------------------------------------------
(***************************************************************************)
(* The theorems.                                                           *)
(***************************************************************************)
\* Every step keeps the inductive invariant.
LEMMA InvStep == IInv /\ [Next]_vars => IInv'
BY NavigationStep, DeselectStep, TransitionStep, CloseStep, PreviewSteps, EnvironmentStep DEF Next

\* The inductive invariant holds throughout every behaviour.
THEOREM Invariance == Spec => []IInv
BY InvInit, InvStep, PTL DEF Spec

\* The selected row, the module, the status cards and the page on the screen
\* agree through every order of clicks, failing modules, cross-fades and closing.
THEOREM ShellIsConsistent == Spec => []ShellInvariant
<1>1. IInv => ShellInvariant
  BY DEF IInv
<1>2. QED BY <1>1, Invariance, PTL

\* A page's timers run exactly while GTK has it mapped (home_mapped,
\* home_unmapped, on_panel_mapped, on_panel_unmapped).
THEOREM TimersFollowThePage == Spec => []VisiblePageTicks
<1>1. IInv => VisiblePageTicks
  BY DEF IInv
<1>2. QED BY <1>1, Invariance, PTL
=============================================================================
