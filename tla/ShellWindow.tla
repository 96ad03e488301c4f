---------------------------- MODULE ShellWindow -----------------------------
(***************************************************************************)
(* The shell window: a list of rows, a stack with the Home page and the    *)
(* page of the built-in Date & Time module, the host that creates a module *)
(* when its page is first opened, and the timers of whichever page is on   *)
(* the screen.                                                             *)
(*                                                                         *)
(* Everything runs on GTK's main loop and one handler is one action, with  *)
(* the signals GTK emits inside it: selecting a row opens its page, opening*)
(* a page selects its row, and what becomes mapped or unmapped is told at  *)
(* once.  The stack cross-fades, so for 110 ms the page that is left stays *)
(* mapped beside the new one.  The search field only narrows what the user *)
(* can click and is left out.                                              *)
(*                                                                         *)
(* Definitions introduced by "Mutant:" are slips the properties must catch;*)
(* no other definition uses them.                                          *)
(***************************************************************************)
EXTENDS PanelPreview

CONSTANTS
  MaxMoves,            \* bound: steps of the user and of the desktop
  MaxFaults            \* bound: modules and tools that fail to start

ASSUME ShellBounds == MaxMoves \in Nat /\ MaxFaults \in Nat

Page == {"home", "date-time"}
Row == Page \cup {"tool", "about"}

ASSUME NoPageAssumption == None \notin Page

VARIABLES
  window,              \* "none", "open", "closing", "closed"
  visible,             \* the stack's visible child
  leaving,             \* the child that is still fading out, or None
  selected,            \* the selected row, or None
  loaded,              \* the host holds an instance of the module
  content,             \* the module page's child: "empty", "unavailable", "panel"
  opened,              \* history: somebody has asked for the module's page
  clock, status,       \* the two timers of the Home page
  desktop,             \* theme and network as the desktop has them
  status_label,        \* as the Home page shows them
  launchable,          \* the external row can still be activated
  moves, faults

pages == <<visible, leaving, selected>>
module == <<loaded, content, opened>>
home == <<clock, status, desktop, status_label>>
vars == <<world, preview, window, pages, module, home, launchable, moves, faults>>

TypeOK ==
  /\ PreviewTypeOK
  /\ window \in {"none", "open", "closing", "closed"}
  /\ visible \in Page /\ leaving \in Page \cup {None} /\ leaving # visible
  /\ selected \in Row \cup {None}
  /\ loaded \in BOOLEAN /\ opened \in BOOLEAN
  /\ content \in {"empty", "unavailable", "panel"}
  /\ clock \in BOOLEAN /\ status \in BOOLEAN
  /\ desktop \in BOOLEAN /\ status_label \in BOOLEAN \cup {None}
  /\ launchable \in BOOLEAN
  /\ moves \in 0..MaxMoves /\ faults \in 0..MaxFaults

Init ==
  /\ PreviewInit
  /\ window = "none"
  /\ visible = "home" /\ leaving = None /\ selected = "home"
  /\ loaded = FALSE /\ content = "empty" /\ opened = FALSE
  /\ clock = FALSE /\ status = FALSE
  /\ desktop = TRUE /\ status_label = None
  /\ launchable = TRUE
  /\ moves = 0 /\ faults = 0

Move == moves < MaxMoves /\ moves' = moves + 1
Open == window = "open"

\* What GTK has mapped; the panel is mapped when it is its page's child.
Mapped(p) == window \in {"open", "closing"} /\ p \in {visible, leaving}
PanelMapped == Mapped("date-time") /\ loaded

-----------------------------------------------------------------------------
(* Signals of the pages.                                                   *)

\* home_temporal_mapped and home_status_mapped: each starts its timer unless it
\* runs, after a refresh.
home_mapped ==
  /\ clock' = TRUE /\ status' = TRUE
  /\ status_label' = IF status THEN status_label ELSE desktop

\* Mutant: the status timer and its signal handlers are left connected.
home_unmapped_status ==
  /\ clock' = FALSE
  /\ UNCHANGED <<status, status_label>>

home_unmapped ==
  /\ clock' = FALSE /\ status' = FALSE
  /\ UNCHANGED status_label

on_panel_unmapped == timer' = FALSE /\ UNCHANGED labels

on_panel_mapped == timer' = TRUE /\ ss_linux_date_time_preview_refresh

\* A page that is still fading out and is opened again is unmapped and mapped.
TurnedBack(p) == leaving = p /\ visible' = p

\* What the pages are told when the handler has changed what is mapped.
Signals ==
  /\ CASE Mapped("home")' /\ (~Mapped("home") \/ TurnedBack("home")) -> home_mapped
       [] Mapped("home") /\ ~Mapped("home")' -> home_unmapped
       [] OTHER -> UNCHANGED <<clock, status, status_label>>
  /\ CASE PanelMapped' /\ (~PanelMapped \/ TurnedBack("date-time")) -> on_panel_mapped
       [] PanelMapped /\ ~PanelMapped' -> on_panel_unmapped
       [] OTHER -> UNCHANGED <<timer, labels>>

-----------------------------------------------------------------------------
(* Navigation.                                                             *)

\* Mutant: the instance is recorded although the module could not be created.
ensure_module_page_records ==
  \/ /\ loaded
     /\ UNCHANGED <<loaded, content, idle, faults>>
  \/ /\ ~loaded
     /\ loaded' = TRUE /\ content' = "panel" /\ idle' = TRUE
     /\ UNCHANGED faults
  \/ /\ ~loaded /\ faults < MaxFaults
     /\ faults' = faults + 1
     /\ loaded' = TRUE /\ content' = "unavailable"
     /\ UNCHANGED idle

\* ss_builtin_module_host_ensure_page: one instance, made when first needed; a
\* failure is not remembered.  The panel's first refresh waits in the idle queue.
\* A panel that was made has a widget until it is freed.
ensure_module_page ==
  \/ /\ loaded
     /\ UNCHANGED <<loaded, content, idle, faults>>
  \/ /\ ~loaded
     /\ loaded' = TRUE /\ content' = "panel" /\ idle' = TRUE
     /\ UNCHANGED faults
  \/ /\ ~loaded /\ faults < MaxFaults
     /\ faults' = faults + 1
     /\ content' = "unavailable"
     /\ UNCHANGED <<loaded, idle>>

\* The module is there or is replaced by a notice; the page is shown and its row
\* selected.  (Selecting calls this handler once more, which then finds
\* everything done, or tries a failed module a second time.)
shell_open_page(p) ==
  /\ IF p = "home" THEN UNCHANGED <<module, idle, faults>>
                   ELSE opened' = TRUE /\ ensure_module_page
  /\ visible' = p
  /\ leaving' = IF visible = p THEN leaving ELSE visible
  /\ selected' = p

\* The user clicks, or moves the selection to, another row.
on_navigation_selected(row) ==
  /\ Open /\ Move
  /\ row # selected
  /\ IF row \in Page
       THEN shell_open_page(row)
       ELSE selected' = row /\ UNCHANGED <<visible, leaving, module, idle, faults>>
  /\ UNCHANGED <<world, window, desktop, launchable>>
  /\ Signals

\* The user takes the selection away; the handler gets no row and returns.
navigation_deselected ==
  /\ Open /\ Move
  /\ selected # None /\ selected' = None
  /\ UNCHANGED <<world, preview, window, visible, leaving, module, home, launchable, faults>>

\* A tool is started, or its row is disabled because it would not start, or the
\* About dialog opens; then the visible page's row is selected again, which
\* opens the page once more.
on_navigation_activated ==
  /\ Open /\ Move
  /\ \/ selected = "about" /\ UNCHANGED launchable
     \/ selected = "tool" /\ launchable /\ launchable' \in BOOLEAN
  /\ shell_open_page(visible)
  /\ UNCHANGED <<world, window, desktop>>
  /\ Signals

\* The Date & Time button of the Home page.
open_date_time_from_home ==
  /\ Open /\ Move
  /\ visible = "home"
  /\ shell_open_page("date-time")
  /\ UNCHANGED <<world, window, desktop, launchable>>
  /\ Signals

\* The stack finishes its transition.
TransitionEnds ==
  /\ Open /\ leaving # None
  /\ leaving' = None
  /\ UNCHANGED <<world, window, visible, selected, module, idle, desktop, launchable,
                 moves, faults>>
  /\ Signals

-----------------------------------------------------------------------------
(* The life of the window.                                                 *)

ss_shell_window_activate ==
  /\ window = "none"
  /\ window' = "open"
  /\ shell_open_page("home")
  /\ UNCHANGED <<world, desktop, launchable, moves>>
  /\ Signals

\* The host, and with it the panel, goes before the widgets do; the panel's
\* handlers are disconnected from them.
on_close_requested ==
  /\ Open
  /\ window' = "closing"
  /\ loaded' = FALSE
  /\ ss_linux_date_time_preview_dispose
  /\ UNCHANGED <<world, pages, content, opened, home, launchable, moves, faults>>

\* GTK unmaps and destroys the widgets; shell_window_owned_state_free.
Destroyed ==
  /\ window = "closing"
  /\ window' = "closed"
  /\ home_unmapped
  /\ UNCHANGED <<world, preview, pages, module, desktop, launchable, moves, faults>>

-----------------------------------------------------------------------------
(* Timers, policy and desktop.                                             *)

PreviewStep ==
  /\ IdleRefresh \/ preview_timer_once(PanelMapped)
  /\ UNCHANGED <<window, pages, module, home, launchable, moves, faults>>

\* The policy changes from the panel, from its file or from Cinnamon.
PolicyStep ==
  /\ Open /\ loaded /\ Move
  /\ PolicyChanges(PanelMapped) \/ ModeReconciled(PanelMapped)
  /\ UNCHANGED <<window, pages, module, home, launchable, faults>>

\* The handlers are connected while the status timer runs.
home_status_source_changed == status_label' = IF status THEN desktop' ELSE status_label

DesktopChanges ==
  /\ Move
  /\ desktop' = ~desktop
  /\ home_status_source_changed
  /\ UNCHANGED <<world, preview, window, pages, module, clock, status, launchable, faults>>

WorldChanges ==
  /\ \/ day < MaxDay /\ day' = day + 1 /\ UNCHANGED <<policy, resources, moves>>
     \/ Move /\ resources' = ~resources /\ UNCHANGED <<policy, day>>
  /\ UNCHANGED <<preview, window, pages, module, home, launchable, faults>>

Next ==
  \/ ss_shell_window_activate
  \/ \E row \in Row : on_navigation_selected(row)
  \/ navigation_deselected
  \/ on_navigation_activated
  \/ open_date_time_from_home
  \/ TransitionEnds
  \/ on_close_requested
  \/ Destroyed
  \/ PreviewStep
  \/ PolicyStep
  \/ DesktopChanges
  \/ WorldChanges

\* The main loop runs its timers and its idle callbacks, and GTK its transition.
Spec ==
  /\ Init /\ [][Next]_vars
  /\ WF_vars(PreviewStep)
  /\ WF_vars(TransitionEnds)

-----------------------------------------------------------------------------
(* What must hold.                                                         *)

\* A selected page row is the page on the screen, through every order of clicks,
\* Home's button, started tools and the About dialog (shell_open_page selects,
\* restore_navigation_selection goes back).
SelectionShowsPage == Open /\ selected \in Page => selected = visible

\* "Visible-page timer ownership": a page's timers run exactly while GTK has it
\* mapped, also across a cross-fade that is turned back half-way and for a
\* module that failed to load and is tried again while its page is visible.
VisiblePageTicks ==
  /\ clock <=> Mapped("home")
  /\ status <=> Mapped("home")
  /\ timer <=> PanelMapped

\* "Unopened modules do not initialise", and the notice of a failed module
\* never hides a panel that was made later, nor the other way round.
ModuleMatchesPage ==
  Open => (loaded => opened) /\ (loaded <=> content = "panel")

\* Home's status cards are those of the desktop whenever the page is mapped,
\* whatever changed while it was not (start_home_status_ticker refreshes).
StatusIsCurrent == Mapped("home") => status_label = desktop

\* Nothing that points into the panel or the window is left to fire once they
\* are freed (on_close_requested frees the host before GTK frees the widgets).
NothingOutlivesTheWindow ==
  /\ window \in {"closing", "closed"} => ~timer /\ ~idle
  /\ window = "closed" => ~clock /\ ~status

\* The date cached for this day and calendar is not on the label, because a
\* calendar that could not be formatted was shown in between.
StaleNotice ==
  /\ cache # None /\ cache.ok /\ cache.calendar = policy.calendar /\ cache.day = day
  /\ ~date_label.ok

\* While the panel stays on the screen its preview catches up with the policy
\* and the day, and a date that could not be formatted is tried again; the one
\* thing that stays is the notice of another calendar over a cached date.
PreviewSettles ==
  <>[](PanelMapped =>
         /\ clock_label # None /\ clock_label.mode = policy.mode
         /\ date_label # None
         /\ \/ StaleNotice
            \/ /\ date_label.calendar = policy.calendar /\ date_label.day = day
               /\ resources => date_label.ok)

\* The preview "reports the resource as unavailable rather than silently
\* substituting another calendar": what a refresh leaves on the date label is
\* about the selected calendar (ss_linux_date_time_preview_refresh).
PreviewNamesTheCalendar ==
  [][PreviewStep => date_label'.calendar = policy.calendar]_vars


\* The state of the window is consistent through every order of clicks, failing
\* modules, cross-fades and closing: well typed, the selected row, the module and
\* the status cards are those of the page on the screen, and nothing is left to
\* fire once the window is gone.
ShellInvariant ==
  /\ TypeOK
  /\ SelectionShowsPage
  /\ ModuleMatchesPage
  /\ StatusIsCurrent
  /\ NothingOutlivesTheWindow
=============================================================================
