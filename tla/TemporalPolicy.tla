--------------------------- MODULE TemporalPolicy ---------------------------
(***************************************************************************)
(* The temporal policy record (clock mode, calendar, seconds, location),   *)
(* the assignments setters and the command-line tool make to it, and its   *)
(* correspondence with the two native Cinnamon keys clock-use-24h and      *)
(* clock-show-seconds.                                                     *)
(*                                                                         *)
(* Coordinates, calendar identifiers and extended clock modes are opaque   *)
(* values.  show_seconds takes the values in Seconds: both in the full     *)
(* system, one in instances that leave that field alone.                   *)
(***************************************************************************)
CONSTANTS
  ClockMode,           \* registered clock-mode identifiers
  Seconds,             \* values of show_seconds
  Calendar,            \* identifiers accepted by the calendar-id grammar
  Location,            \* valid coordinate pairs
  NoLocation,          \* location_configured = false
  DefaultCalendar,     \* calendar of infiltratr_temporal_policy_v3_default
  Absent,              \* no policy file
  Same                 \* a field an edit leaves alone

StandardMode == {"standard-24", "standard-12"}

Policy ==
  [clock    : ClockMode,
   calendar : Calendar,
   seconds  : Seconds,
   location : Location \cup {NoLocation}]

ASSUME ModeAssumption == StandardMode \subseteq ClockMode
ASSUME SecondsAssumption == "hidden" \in Seconds /\ Seconds \subseteq {"shown", "hidden"}
ASSUME CalendarAssumption == DefaultCalendar \in Calendar
ASSUME SameAssumption ==
  Same \notin ClockMode \cup Calendar \cup Seconds \cup Location \cup {NoLocation}
ASSUME AbsentAssumption == Absent \notin Policy

\* The native desktop settings; clock is the mode clock-use-24h stands for.
Native == [clock : StandardMode, seconds : Seconds]

\* Common's default policy, its clock and seconds replaced by the desktop's.
Seed(n) ==
  [clock    |-> n.clock,
   calendar |-> DefaultCalendar,
   seconds  |-> n.seconds,
   location |-> NoLocation]

\* An edit: a new value, or Same, for each field.
Change ==
  [clock    : ClockMode \cup {Same},
   calendar : Calendar \cup {Same},
   seconds  : Seconds \cup {Same},
   location : Location \cup {NoLocation, Same}]

NoChange == [clock |-> Same, calendar |-> Same, seconds |-> Same, location |-> Same]

\* The assignments of an edit to its candidate.
Chosen(new, old) == IF new = Same THEN old ELSE new

Assign(pol, ch) ==
  [clock    |-> Chosen(ch.clock, pol.clock),
   calendar |-> Chosen(ch.calendar, pol.calendar),
   seconds  |-> Chosen(ch.seconds, pol.seconds),
   location |-> Chosen(ch.location, pol.location)]

\* Mutant: the 24-hour key is written negated.
MirroredClockNegated(pol, n) ==
  IF pol.clock \in StandardMode THEN CHOOSE m \in StandardMode : m # pol.clock ELSE n.clock

(***************************************************************************)
(* The native value that represents a policy exactly where one exists:     *)
(* extended clock modes leave clock-use-24h as it is.                      *)
(***************************************************************************)
MirroredClock(pol, n) == IF pol.clock \in StandardMode THEN pol.clock ELSE n.clock

CompatibilityMatches(pol, n) ==
  /\ pol.clock \in StandardMode => n.clock = pol.clock
  /\ n.seconds = pol.seconds
=============================================================================
