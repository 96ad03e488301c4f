----------------------------- MODULE ManualTime ------------------------------
(***************************************************************************)
(* What the manual editor fills in and reads back: a wall time in the      *)
(* selected clock, as hours, minutes and perhaps seconds of at most two    *)
(* digits and, on a 12-hour clock, a marker.  A text is accepted only if   *)
(* it names a time of that clock that exists on that day.                  *)
(*                                                                         *)
(* Times are counted in ticks of 8000 microseconds, the greatest common    *)
(* measure of a second and of a decimal second, so that every value is     *)
(* exact.  Digits, blanks and letter case are left out: a field is what    *)
(* parse_field reads from it.  One day of the local zone is modelled by    *)
(* the wall times its daylight-saving change skips, if any.                *)
(*                                                                         *)
(* Definitions introduced by "Mutant:" are slips the properties must catch;*)
(* no other definition uses them.                                          *)
(***************************************************************************)
EXTENDS Naturals

CONSTANTS
  Rejected,            \* the text is not accepted
  Field,               \* the values of a field that are tried
  Skipped              \* [from, until] in seconds: wall times that do not exist

Second == 125                    \* ticks
DecimalSecond == 108
Day == 86400 * Second

ASSUME RejectedAssumption == Rejected \notin 0..(Day - 1)
ASSUME FieldAssumption == Field \subseteq 0..99
ASSUME SkippedAssumption == Skipped \subseteq [from : Nat, until : Nat]

Profile == {"conventional-12", "conventional-24", "decimal-10"}
Omitted == 100                   \* the text has no seconds
Marker == {"none", "AM", "PM", "other"}
Text == [hour : Field, minute : Field, second : Field \cup {Omitted}, marker : Marker]

-----------------------------------------------------------------------------
(* ss_manual_time_parse                                                    *)

SecondOf(text) == IF text.second = Omitted THEN 0 ELSE text.second

Sexagesimal(text) == text.minute <= 59 /\ SecondOf(text) <= 59

Wall(hour, text) == (hour * 3600 + text.minute * 60 + SecondOf(text)) * Second

parse_24_hour(text) ==
  IF text.marker = "none" /\ text.hour <= 23 /\ Sexagesimal(text)
    THEN Wall(text.hour, text)
    ELSE Rejected

parse_12_hour(text) ==
  IF text.marker \in {"AM", "PM"} /\ text.hour \in 1..12 /\ Sexagesimal(text)
    THEN Wall((text.hour % 12) + (IF text.marker = "PM" THEN 12 ELSE 0), text)
    ELSE Rejected

parse_decimal(text) ==
  IF text.marker = "none" /\ text.hour <= 9
    THEN (text.hour * 10000 + text.minute * 100 + SecondOf(text)) * DecimalSecond
    ELSE Rejected

ss_manual_time_parse(profile, text) ==
  CASE profile = "conventional-12" -> parse_12_hour(text)
    [] profile = "conventional-24" -> parse_24_hour(text)
    [] profile = "decimal-10"      -> parse_decimal(text)

-----------------------------------------------------------------------------
(* parse_manual_datetime on a day of the local zone                        *)

\* g_date_time_new_local moves a wall time that does not exist past the gap.
new_local(second, skipped) ==
  IF second >= skipped.from /\ second < skipped.until
    THEN second + (skipped.until - skipped.from)
    ELSE second

\* Mutant: the time GLib has moved is accepted.
parse_manual_datetime_moved(profile, text, skipped) ==
  LET parsed == ss_manual_time_parse(profile, text)
  IN  IF parsed = Rejected
        THEN Rejected
        ELSE new_local(parsed \div Second, skipped) * Second + (parsed % Second)

\* The seconds go through GLib, the fraction is added to what comes back.
parse_manual_datetime(profile, text, skipped) ==
  LET parsed == ss_manual_time_parse(profile, text)
  IN  IF parsed = Rejected \/ new_local(parsed \div Second, skipped) # parsed \div Second
        THEN Rejected
        ELSE parsed

-----------------------------------------------------------------------------
(* The clock face of Infiltratr Common, which fill_manual_time_entries     *)
(* shows and the user reads.                                               *)

Face(profile, time) ==
  LET s == time \div Second
      d == time \div DecimalSecond
  IN  CASE profile = "conventional-24" ->
             [hour |-> s \div 3600, minute |-> (s \div 60) % 60, second |-> s % 60,
              marker |-> "none"]
        [] profile = "conventional-12" ->
             [hour |-> (((s \div 3600) + 11) % 12) + 1, minute |-> (s \div 60) % 60,
              second |-> s % 60, marker |-> IF s \div 3600 < 12 THEN "AM" ELSE "PM"]
        [] profile = "decimal-10" ->
             [hour |-> d \div 10000, minute |-> (d \div 100) % 100, second |-> d % 100,
              marker |-> "none"]

-----------------------------------------------------------------------------
(* The two questions, per profile.                                         *)

\* Whatever is typed: what is accepted exists on that day, and the clock will
\* read exactly what was typed.
Exact ==
  {profile \in Profile :
     \A text \in Text, skipped \in Skipped :
       LET time == parse_manual_datetime(profile, text, skipped)
       IN  time # Rejected =>
             /\ time \in 0..(Day - 1)
             /\ ~(time \div Second >= skipped.from /\ time \div Second < skipped.until)
             /\ Face(profile, time) = [text EXCEPT !.second = SecondOf(text)]}

\* At every second of the day: the text filled in is accepted, and stands for
\* that second but for the unit that is not shown.
Reversible ==
  {profile \in Profile :
     \A s \in 0..86399 :
       LET face  == Face(profile, s * Second)
           exact == ss_manual_time_parse(profile, face)
           short == ss_manual_time_parse(profile, [face EXCEPT !.second = Omitted])
           unit  == IF profile = "decimal-10" THEN DecimalSecond ELSE Second
           scale == IF profile = "decimal-10" THEN 100 ELSE 60
       IN  /\ exact \in 0..(s * Second) /\ s * Second - exact < unit
           /\ short \in 0..exact /\ exact - short < scale * unit}
=============================================================================
