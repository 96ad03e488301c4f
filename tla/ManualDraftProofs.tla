------------------------- MODULE ManualDraftProofs --------------------------
(***************************************************************************)
(* Proofs about ManualTime and ManualDraft.  ManualTime: every text of     *)
(* two-digit fields that is accepted, on a day with any gap, is the time   *)
(* that was typed, and every second of the day is read back from its face. *)
(* ManualDraft: for any zones and representations a draft loses its        *)
(* meaning only through a silent change, and the editor is hidden under    *)
(* network time.                                                           *)
(***************************************************************************)
EXTENDS ManualDraft, SequenceTheorems, TLAPS

(***************************************************************************)
(* Arithmetic of the clock faces.                                          *)
(***************************************************************************)
\* Hours, minutes and seconds of a sum of them.
LEMMA SexagesimalDigits ==
  ASSUME NEW h \in Nat, h <= 23, NEW m \in Nat, m <= 59, NEW s \in Nat, s <= 59
  PROVE  /\ h * 3600 + m * 60 + s \in Nat
         /\ h * 3600 + m * 60 + s <= 86399
         /\ (h * 3600 + m * 60 + s) \div 3600 = h
         /\ ((h * 3600 + m * 60 + s) \div 60) % 60 = m
         /\ (h * 3600 + m * 60 + s) % 60 = s
<1>1. h * 3600 + m * 60 + s \in Nat /\ h * 3600 + m * 60 + s <= 86399
  BY SMT
<1>2. (h * 3600 + m * 60 + s) \div 3600 = h
  BY SMT
<1>3. (h * 3600 + m * 60 + s) \div 60 = h * 60 + m
  BY SMT
<1>4. (h * 60 + m) % 60 = m
  BY SMT
<1>5. (h * 3600 + m * 60 + s) % 60 = s
  BY SMT
<1>6. QED BY <1>1, <1>2, <1>3, <1>4, <1>5, SMT

\* The digits of a decimal time.
LEMMA DecimalDigits ==
  ASSUME NEW h \in Nat, h <= 9, NEW m \in Nat, m <= 99, NEW s \in Nat, s <= 99
  PROVE  /\ h * 10000 + m * 100 + s \in Nat
         /\ h * 10000 + m * 100 + s <= 99999
         /\ (h * 10000 + m * 100 + s) \div 10000 = h
         /\ ((h * 10000 + m * 100 + s) \div 100) % 100 = m
         /\ (h * 10000 + m * 100 + s) % 100 = s
<1>1. h * 10000 + m * 100 + s \in Nat /\ h * 10000 + m * 100 + s <= 99999
  BY SMT
<1>2. (h * 10000 + m * 100 + s) \div 10000 = h
  BY SMT
<1>3. (h * 10000 + m * 100 + s) \div 100 = h * 100 + m
  BY SMT
<1>4. (h * 100 + m) % 100 = m
  BY SMT
<1>5. (h * 10000 + m * 100 + s) % 100 = s
  BY SMT
<1>6. QED BY <1>1, <1>2, <1>3, <1>4, <1>5, SMT

\* A number of whole seconds, in ticks, is a time of the day with those seconds.
LEMMA WholeSeconds ==
  ASSUME NEW n \in Nat, n <= 86399
  PROVE  /\ n * Second \in Nat /\ n * Second < Day
         /\ (n * Second) \div Second = n
BY SMT DEF Second, Day

\* The same for decimal seconds.
LEMMA WholeDecimalSeconds ==
  ASSUME NEW n \in Nat, n <= 99999
  PROVE  /\ n * DecimalSecond \in Nat /\ n * DecimalSecond < Day
         /\ (n * DecimalSecond) \div DecimalSecond = n
BY SMT DEF DecimalSecond, Second, Day

\* A time below Day is a time of the day, and none is Rejected.
LEMMA TimeOfDay ==
  ASSUME NEW t \in Nat, t < Day
  PROVE  t \in 0..(Day - 1) /\ t # Rejected
<1>1. Day \in Nat
  BY SMT DEF Day, Second
<1>2. t \in 0..(Day - 1)
  BY <1>1, SMT
<1>3. QED BY <1>2, RejectedAssumption

\* The hours of a 12-hour clock and its marker.
LEMMA TwelveHours ==
  ASSUME NEW h \in Nat, 1 <= h, h <= 12, NEW half \in {0, 12}
  PROVE  /\ (h % 12) + half \in Nat /\ (h % 12) + half <= 23
         /\ ((((h % 12) + half) + 11) % 12) + 1 = h
         /\ (h % 12) + half < 12 <=> half = 0
<1>1. h % 12 = IF h = 12 THEN 0 ELSE h
  BY SMT
<1>2. QED BY <1>1, SMT

-----------------------------------------------------------------------------
(***************************************************************************)
(* Parsing.                                                                *)
(***************************************************************************)
\* The fields of a text have at most two digits.
LEMMA TextFields ==
  ASSUME NEW text \in Text
  PROVE  /\ text.hour \in Nat /\ text.hour <= 99
         /\ text.minute \in Nat /\ text.minute <= 99
         /\ SecondOf(text) \in Nat /\ SecondOf(text) <= 99
<1>1. \A f \in Field : f \in Nat /\ f <= 99
  BY FieldAssumption, SMT
<1>2. text.hour \in Field /\ text.minute \in Field /\ text.second \in Field \cup {Omitted}
  BY SMT DEF Text
<1>3. SecondOf(text) \in Nat /\ SecondOf(text) <= 99
  BY <1>1, <1>2, SMT DEF SecondOf
<1>4. QED BY <1>1, <1>2, <1>3, SMT

\* A text whose missing seconds have become zero.
LEMMA TextRecord ==
  ASSUME NEW text \in Text
  PROVE  [text EXCEPT !.second = SecondOf(text)] =
           [hour |-> text.hour, minute |-> text.minute, second |-> SecondOf(text),
            marker |-> text.marker]
BY SMT DEF Text

\* What parse_manual_datetime accepts is what ss_manual_time_parse has read, and
\* it is no time the day skips.
LEMMA AcceptedExists ==
  ASSUME NEW profile \in Profile, NEW text \in Text, NEW skipped \in Skipped,
         ss_manual_time_parse(profile, text) \in Nat,
         parse_manual_datetime(profile, text, skipped) # Rejected
  PROVE  LET time == parse_manual_datetime(profile, text, skipped)
         IN  /\ time = ss_manual_time_parse(profile, text)
             /\ ~(time \div Second >= skipped.from /\ time \div Second < skipped.until)
<1> DEFINE parsed == ss_manual_time_parse(profile, text)
           second == parsed \div Second
<1>1. skipped.from \in Nat /\ skipped.until \in Nat
  BY SMT, SkippedAssumption
<1>2. second \in Nat
  BY SMT DEF Second
<1>3. /\ parse_manual_datetime(profile, text, skipped) = parsed
      /\ new_local(second, skipped) = second
  BY SMT DEF parse_manual_datetime
<1> HIDE DEF second
<1>4. ~(second >= skipped.from /\ second < skipped.until)
  BY <1>1, <1>2, <1>3, SMT DEF new_local
<1>5. QED BY SMT, <1>3, <1>4 DEF second

\* The 24-hour clock shows again what it accepts.
LEMMA Exact24 ==
  ASSUME NEW text \in Text, parse_24_hour(text) # Rejected
  PROVE  /\ parse_24_hour(text) \in Nat /\ parse_24_hour(text) < Day
         /\ Face("conventional-24", parse_24_hour(text)) =
              [text EXCEPT !.second = SecondOf(text)]
<1> DEFINE n == text.hour * 3600 + text.minute * 60 + SecondOf(text)
<1>1. /\ text.marker = "none" /\ parse_24_hour(text) = n * Second
      /\ text.hour \in Nat /\ text.hour <= 23 /\ text.minute \in Nat /\ text.minute <= 59
      /\ SecondOf(text) \in Nat /\ SecondOf(text) <= 59
  <2>1. text.marker = "none" /\ text.hour <= 23 /\ Sexagesimal(text)
    BY SMT DEF parse_24_hour
  <2>2. parse_24_hour(text) = n * Second
    BY <2>1, SMT DEF parse_24_hour, Wall
  <2> HIDE DEF n
  <2>3. text.minute <= 59 /\ SecondOf(text) <= 59
    BY <2>1, SMT DEF Sexagesimal
  <2>4. QED BY <2>1, <2>2, <2>3, TextFields, SMT
<1>2. /\ n \in Nat /\ n <= 86399
      /\ n \div 3600 = text.hour /\ (n \div 60) % 60 = text.minute /\ n % 60 = SecondOf(text)
  <2>1. PICK h \in Nat, m \in Nat, s \in Nat :
          h = text.hour /\ m = text.minute /\ s = SecondOf(text)
    BY <1>1, SMT
  <2>2. h <= 23 /\ m <= 59 /\ s <= 59
    BY <1>1, <2>1, SMT
  <2>3. n = h * 3600 + m * 60 + s
    BY <2>1, SMT
  <2> HIDE DEF n
  <2>4. /\ h * 3600 + m * 60 + s \in Nat
        /\ h * 3600 + m * 60 + s <= 86399
        /\ (h * 3600 + m * 60 + s) \div 3600 = h
        /\ ((h * 3600 + m * 60 + s) \div 60) % 60 = m
        /\ (h * 3600 + m * 60 + s) % 60 = s
    BY ONLY <2>2, SexagesimalDigits, h \in Nat, m \in Nat, s \in Nat, SMT
  <2>5. QED BY <2>1, <2>3, <2>4, SMT
<1> HIDE DEF n
<1>3. n * Second \in Nat /\ n * Second < Day /\ (n * Second) \div Second = n
  BY SMT, <1>2, WholeSeconds
<1>4. Face("conventional-24", n * Second) =
        [hour |-> n \div 3600, minute |-> (n \div 60) % 60, second |-> n % 60,
         marker |-> "none"]
  BY SMT, <1>3 DEF Face
<1>5. QED BY SMT, <1>1, <1>2, <1>3, <1>4, TextRecord

\* The 12-hour clock shows again what it accepts.
LEMMA Exact12 ==
  ASSUME NEW text \in Text, parse_12_hour(text) # Rejected
  PROVE  /\ parse_12_hour(text) \in Nat /\ parse_12_hour(text) < Day
         /\ Face("conventional-12", parse_12_hour(text)) =
              [text EXCEPT !.second = SecondOf(text)]
<1> DEFINE half == IF text.marker = "PM" THEN 12 ELSE 0
           hour == (text.hour % 12) + half
           n == hour * 3600 + text.minute * 60 + SecondOf(text)
<1>1. /\ text.marker \in {"AM", "PM"} /\ parse_12_hour(text) = n * Second
      /\ text.hour \in Nat /\ 1 <= text.hour /\ text.hour <= 12
      /\ text.minute \in Nat /\ text.minute <= 59
      /\ SecondOf(text) \in Nat /\ SecondOf(text) <= 59
  <2>1. text.marker \in {"AM", "PM"} /\ text.hour \in 1..12 /\ Sexagesimal(text)
    BY SMT DEF parse_12_hour
  <2>2. parse_12_hour(text) = n * Second
    BY <2>1, SMT DEF parse_12_hour, Wall
  <2> HIDE DEF n
  <2>3. text.minute <= 59 /\ SecondOf(text) <= 59
    BY <2>1, SMT DEF Sexagesimal
  <2>4. QED BY <2>1, <2>2, <2>3, TextFields, SMT
<1>2. half \in {0, 12}
  BY SMT
<1>3. text.marker = IF half = 0 THEN "AM" ELSE "PM"
  BY SMT, <1>1
<1> HIDE DEF half
<1>4. /\ hour \in Nat /\ hour <= 23
      /\ ((hour + 11) % 12) + 1 = text.hour /\ (hour < 12 <=> half = 0)
  BY SMT, <1>1, <1>2, TwelveHours
<1> HIDE DEF hour
<1>5. /\ n \in Nat /\ n <= 86399
      /\ n \div 3600 = hour /\ (n \div 60) % 60 = text.minute /\ n % 60 = SecondOf(text)
  BY SMT, <1>1, <1>4, SexagesimalDigits
<1> HIDE DEF n
<1>6. n * Second \in Nat /\ n * Second < Day /\ (n * Second) \div Second = n
  BY SMT, <1>5, WholeSeconds
<1>7. Face("conventional-12", n * Second) =
        [hour |-> (((n \div 3600) + 11) % 12) + 1, minute |-> (n \div 60) % 60,
         second |-> n % 60, marker |-> IF n \div 3600 < 12 THEN "AM" ELSE "PM"]
  BY SMT, <1>6 DEF Face
<1>8. Face("conventional-12", n * Second) =
        [hour |-> text.hour, minute |-> text.minute, second |-> SecondOf(text),
         marker |-> text.marker]
  BY SMT, <1>3, <1>4, <1>5, <1>7
<1>9. QED BY SMT, <1>1, <1>6, <1>8, TextRecord

\* The decimal clock shows again what it accepts.
LEMMA ExactDecimal ==
  ASSUME NEW text \in Text, parse_decimal(text) # Rejected
  PROVE  /\ parse_decimal(text) \in Nat /\ parse_decimal(text) < Day
         /\ Face("decimal-10", parse_decimal(text)) = [text EXCEPT !.second = SecondOf(text)]
<1> DEFINE n == text.hour * 10000 + text.minute * 100 + SecondOf(text)
<1>1. /\ text.marker = "none" /\ parse_decimal(text) = n * DecimalSecond
      /\ text.hour \in Nat /\ text.hour <= 9 /\ text.minute \in Nat /\ text.minute <= 99
      /\ SecondOf(text) \in Nat /\ SecondOf(text) <= 99
  <2>1. text.marker = "none" /\ text.hour <= 9
    BY SMT DEF parse_decimal
  <2>2. parse_decimal(text) = n * DecimalSecond
    BY <2>1, SMT DEF parse_decimal
  <2> HIDE DEF n
  <2>3. QED BY <2>1, <2>2, TextFields, SMT
<1>2. /\ n \in Nat /\ n <= 99999
      /\ n \div 10000 = text.hour /\ (n \div 100) % 100 = text.minute
      /\ n % 100 = SecondOf(text)
  <2>1. PICK h \in Nat, m \in Nat, s \in Nat :
          h = text.hour /\ m = text.minute /\ s = SecondOf(text)
    BY <1>1, SMT
  <2>2. h <= 9 /\ m <= 99 /\ s <= 99
    BY <1>1, <2>1, SMT
  <2>3. n = h * 10000 + m * 100 + s
    BY <2>1, SMT
  <2> HIDE DEF n
  <2>4. /\ h * 10000 + m * 100 + s \in Nat
        /\ h * 10000 + m * 100 + s <= 99999
        /\ (h * 10000 + m * 100 + s) \div 10000 = h
        /\ ((h * 10000 + m * 100 + s) \div 100) % 100 = m
        /\ (h * 10000 + m * 100 + s) % 100 = s
    BY ONLY <2>2, DecimalDigits, h \in Nat, m \in Nat, s \in Nat, SMT
  <2>5. QED BY <2>1, <2>3, <2>4, SMT
<1> HIDE DEF n
<1>3. /\ n * DecimalSecond \in Nat /\ n * DecimalSecond < Day
      /\ (n * DecimalSecond) \div DecimalSecond = n
  BY SMT, <1>2, WholeDecimalSeconds
<1>4. Face("decimal-10", n * DecimalSecond) =
        [hour |-> n \div 10000, minute |-> (n \div 100) % 100, second |-> n % 100,
         marker |-> "none"]
  BY SMT, <1>3 DEF Face
<1>5. QED BY SMT, <1>1, <1>2, <1>3, <1>4, TextRecord

\* Whatever two-digit fields are typed, in every profile, on a day with any gap:
\* an accepted time exists and the clock will read what was typed
\* (ss_manual_time_parse, parse_manual_datetime).
THEOREM EveryProfileExact == Exact = Profile
<1> SUFFICES ASSUME NEW profile \in Profile, NEW text \in Text, NEW skipped \in Skipped,
                    parse_manual_datetime(profile, text, skipped) # Rejected
             PROVE  LET time == parse_manual_datetime(profile, text, skipped)
                    IN  /\ time \in 0..(Day - 1)
                        /\ ~(time \div Second >= skipped.from /\ time \div Second < skipped.until)
                        /\ Face(profile, time) = [text EXCEPT !.second = SecondOf(text)]
  BY SMT DEF Exact
<1> DEFINE parsed == ss_manual_time_parse(profile, text)
<1>1. parsed # Rejected
  BY SMT DEF parse_manual_datetime
<1>2. /\ parsed \in Nat /\ parsed < Day
      /\ Face(profile, parsed) = [text EXCEPT !.second = SecondOf(text)]
  <2>1. CASE profile = "conventional-12"
    BY SMT, <1>1, <2>1, Exact12 DEF ss_manual_time_parse
  <2>2. CASE profile = "conventional-24"
    BY SMT, <1>1, <2>2, Exact24 DEF ss_manual_time_parse
  <2>3. CASE profile = "decimal-10"
    BY SMT, <1>1, <2>3, ExactDecimal DEF ss_manual_time_parse
  <2>4. QED BY SMT, <2>1, <2>2, <2>3 DEF Profile
<1>3. parsed \in 0..(Day - 1)
  BY SMT, <1>2, TimeOfDay
<1> HIDE DEF parsed
<1>4. QED BY SMT, <1>2, <1>3, AcceptedExists DEF parsed

-----------------------------------------------------------------------------
(***************************************************************************)
(* Reading back the faces that are filled in.                              *)
(***************************************************************************)
\* Division with remainder by 60 (conventional clocks).
LEMMA BySixty ==
  ASSUME NEW n \in Nat
  PROVE  \E q \in Nat, r \in Nat : q = n \div 60 /\ r = n % 60 /\ n = 60 * q + r /\ r <= 59
BY SMT

\* Division with remainder by 100 (the decimal clock).
LEMMA ByHundred ==
  ASSUME NEW n \in Nat
  PROVE  \E q \in Nat, r \in Nat : q = n \div 100 /\ r = n % 100 /\ n = 100 * q + r /\ r <= 99
BY SMT

\* Hours, minutes and seconds of a second of the day, and their sum.
LEMMA SexagesimalSum ==
  ASSUME NEW n \in Nat, n <= 86399
  PROVE  \E h \in Nat, m \in Nat, s \in Nat :
           /\ h = n \div 3600 /\ m = (n \div 60) % 60 /\ s = n % 60
           /\ h <= 23 /\ m <= 59 /\ s <= 59
           /\ h * 3600 + m * 60 + s = n
<1>1. PICK a \in Nat, s \in Nat : a = n \div 60 /\ s = n % 60 /\ n = 60 * a + s /\ s <= 59
  BY BySixty
<1>2. PICK h \in Nat, m \in Nat : h = a \div 60 /\ m = a % 60 /\ a = 60 * h + m /\ m <= 59
  BY BySixty
<1>3. h = n \div 3600
  BY <1>1, <1>2, SMT
<1>4. h <= 23 /\ h * 3600 + m * 60 + s = n
  BY <1>1, <1>2, SMT
<1>5. QED BY <1>1, <1>2, <1>3, <1>4

\* The whole decimal seconds of a second of the day, and their five digits.
LEMMA DecimalSum ==
  ASSUME NEW n \in Nat, n <= 86399
  PROVE  \E d \in Nat, h \in Nat, m \in Nat, s \in Nat :
           /\ d = (n * Second) \div DecimalSecond
           /\ d * DecimalSecond <= n * Second /\ n * Second - d * DecimalSecond < DecimalSecond
           /\ h = d \div 10000 /\ m = (d \div 100) % 100 /\ s = d % 100
           /\ h <= 9 /\ m <= 99 /\ s <= 99
           /\ h * 10000 + m * 100 + s = d
<1>1. PICK d \in Nat :
        /\ d = (n * Second) \div DecimalSecond /\ d <= 99999
        /\ d * DecimalSecond <= n * Second /\ n * Second - d * DecimalSecond < DecimalSecond
  BY SMT DEF Second, DecimalSecond
<1>2. PICK a \in Nat, s \in Nat : a = d \div 100 /\ s = d % 100 /\ d = 100 * a + s /\ s <= 99
  BY ByHundred
<1>3. PICK h \in Nat, m \in Nat : h = a \div 100 /\ m = a % 100 /\ a = 100 * h + m /\ m <= 99
  BY ByHundred
<1>4. h = d \div 10000
  BY <1>2, <1>3, SMT
<1>5. h <= 9
  <2>1. d <= 99999
    BY <1>1, SMT
  <2>2. QED BY ONLY <2>1, <1>2, <1>3, a \in Nat, h \in Nat, m \in Nat, s \in Nat, SMT
<1>6. h * 10000 + m * 100 + s = d
  BY ONLY <1>2, <1>3, a \in Nat, h \in Nat, m \in Nat, s \in Nat, d \in Nat, SMT
<1>7. /\ d = (n * Second) \div DecimalSecond
      /\ d * DecimalSecond <= n * Second /\ n * Second - d * DecimalSecond < DecimalSecond
      /\ h = d \div 10000 /\ m = (d \div 100) % 100 /\ s = d % 100
      /\ h <= 9 /\ m <= 99 /\ s <= 99
      /\ h * 10000 + m * 100 + s = d
  BY <1>1, <1>2, <1>3, <1>4, <1>5, <1>6, SMT
<1>8. QED BY <1>7

\* The 24-hour face of a second of the day reads back as that second.
LEMMA Reversible24 ==
  ASSUME NEW n \in Nat, n <= 86399
  PROVE  LET face  == Face("conventional-24", n * Second)
             exact == parse_24_hour(face)
             short == parse_24_hour([face EXCEPT !.second = Omitted])
         IN  /\ exact \in 0..(n * Second) /\ n * Second - exact < Second
             /\ short \in 0..exact /\ exact - short < 60 * Second
<1>1. PICK h \in Nat, m \in Nat, s \in Nat :
        /\ h = n \div 3600 /\ m = (n \div 60) % 60 /\ s = n % 60
        /\ h <= 23 /\ m <= 59 /\ s <= 59
        /\ h * 3600 + m * 60 + s = n
  BY SexagesimalSum
<1> DEFINE face == [hour |-> h, minute |-> m, second |-> s, marker |-> "none"]
           bare == [hour |-> h, minute |-> m, second |-> Omitted, marker |-> "none"]
<1>2. Face("conventional-24", n * Second) = face /\ [face EXCEPT !.second = Omitted] = bare
  <2>1. (n * Second) \div Second = n
    BY WholeSeconds, SMT
  <2>2. Face("conventional-24", n * Second) = face
    BY <1>1, <2>1, SMT DEF Face
  <2>3. QED BY <2>2, SMT
<1>3. SecondOf(face) = s /\ SecondOf(bare) = 0
  BY <1>1, SMT DEF SecondOf, Omitted
<1>4. parse_24_hour(face) = n * Second
  <2>1. Sexagesimal(face)
    BY <1>1, <1>3, SMT DEF Sexagesimal
  <2>2. Wall(face.hour, face) = n * Second
    BY <1>1, <1>3, SMT DEF Wall
  <2>3. QED BY <1>1, <2>1, <2>2, SMT DEF parse_24_hour
<1>5. parse_24_hour(bare) = (h * 3600 + m * 60 + 0) * Second
  <2>1. Sexagesimal(bare)
    BY <1>1, <1>3, SMT DEF Sexagesimal
  <2>2. Wall(bare.hour, bare) = (h * 3600 + m * 60 + 0) * Second
    BY <1>3, SMT DEF Wall
  <2>3. QED BY <1>1, <2>1, <2>2, SMT DEF parse_24_hour
<1>6. /\ n * Second \in 0..(n * Second)
      /\ (h * 3600 + m * 60 + 0) * Second \in 0..(n * Second)
      /\ n * Second - (h * 3600 + m * 60 + 0) * Second < 60 * Second
  BY ONLY <1>1, h \in Nat, m \in Nat, s \in Nat, n \in Nat, SMT DEF Second
<1>7. n * Second - n * Second < Second
  BY SMT DEF Second
<1> HIDE DEF face, bare
<1>8. QED BY <1>2, <1>4, <1>5, <1>6, <1>7

\* The hours and the marker of the 12-hour face of an hour of the day.
LEMMA TwelveHourFace ==
  ASSUME NEW h \in Nat, h <= 23
  PROVE  \E t \in 1..12 :
           /\ t = ((h + 11) % 12) + 1
           /\ (t % 12) + (IF h < 12 THEN 0 ELSE 12) = h
<1> DEFINE t == ((h + 11) % 12) + 1
<1>1. t \in 1..12
  BY SMT
<1>2. (t % 12) + (IF h < 12 THEN 0 ELSE 12) = h
  BY SMT
<1>3. QED BY <1>1, <1>2

\* The 12-hour face of a second of the day reads back as that second.
LEMMA Reversible12 ==
  ASSUME NEW n \in Nat, n <= 86399
  PROVE  LET face  == Face("conventional-12", n * Second)
             exact == parse_12_hour(face)
             short == parse_12_hour([face EXCEPT !.second = Omitted])
         IN  /\ exact \in 0..(n * Second) /\ n * Second - exact < Second
             /\ short \in 0..exact /\ exact - short < 60 * Second
<1>1. PICK h \in Nat, m \in Nat, s \in Nat :
        /\ h = n \div 3600 /\ m = (n \div 60) % 60 /\ s = n % 60
        /\ h <= 23 /\ m <= 59 /\ s <= 59
        /\ h * 3600 + m * 60 + s = n
  BY SexagesimalSum
<1>2. PICK t \in 1..12 :
        t = ((h + 11) % 12) + 1 /\ (t % 12) + (IF h < 12 THEN 0 ELSE 12) = h
  BY <1>1, TwelveHourFace, SMT
<1> DEFINE mark == IF h < 12 THEN "AM" ELSE "PM"
           face == [hour |-> t, minute |-> m, second |-> s, marker |-> mark]
           bare == [hour |-> t, minute |-> m, second |-> Omitted, marker |-> mark]
           hour == (t % 12) + (IF mark = "PM" THEN 12 ELSE 0)
<1>3. Face("conventional-12", n * Second) = face /\ [face EXCEPT !.second = Omitted] = bare
  <2>1. (n * Second) \div Second = n
    BY WholeSeconds, SMT
  <2>2. Face("conventional-12", n * Second) = face
    BY <1>1, <1>2, <2>1, SMT DEF Face
  <2>3. QED BY <2>2, SMT
<1>4. hour = h /\ mark \in {"AM", "PM"}
  BY <1>1, <1>2, SMT
<1>5. SecondOf(face) = s /\ SecondOf(bare) = 0
  BY <1>1, SMT DEF SecondOf, Omitted
<1>6. parse_12_hour(face) = n * Second
  <2>1. Sexagesimal(face)
    BY <1>1, <1>5, SMT DEF Sexagesimal
  <2>2. Wall(hour, face) = n * Second
    BY <1>1, <1>4, <1>5, SMT DEF Wall
  <2>3. parse_12_hour(face) = Wall(hour, face)
    BY <1>2, <1>4, <2>1, SMT DEF parse_12_hour
  <2>4. QED BY <2>2, <2>3
<1>7. parse_12_hour(bare) = (h * 3600 + m * 60 + 0) * Second
  <2>1. Sexagesimal(bare)
    BY <1>1, <1>5, SMT DEF Sexagesimal
  <2>2. Wall(hour, bare) = (h * 3600 + m * 60 + 0) * Second
    BY <1>4, <1>5, SMT DEF Wall
  <2>3. parse_12_hour(bare) = Wall(hour, bare)
    BY <1>2, <1>4, <2>1, SMT DEF parse_12_hour
  <2>4. QED BY <2>2, <2>3
<1>8. /\ n * Second \in 0..(n * Second)
      /\ (h * 3600 + m * 60 + 0) * Second \in 0..(n * Second)
      /\ n * Second - (h * 3600 + m * 60 + 0) * Second < 60 * Second
  BY ONLY <1>1, h \in Nat, m \in Nat, s \in Nat, n \in Nat, SMT DEF Second
<1>9. n * Second - n * Second < Second
  BY SMT DEF Second
<1> HIDE DEF face, bare
<1>10. QED BY <1>3, <1>6, <1>7, <1>8, <1>9

\* The decimal face of a second of the day reads back as the decimal second that
\* has begun, which is less than one before it.
LEMMA ReversibleDecimal ==
  ASSUME NEW n \in Nat, n <= 86399
  PROVE  LET face  == Face("decimal-10", n * Second)
             exact == parse_decimal(face)
             short == parse_decimal([face EXCEPT !.second = Omitted])
         IN  /\ exact \in 0..(n * Second) /\ n * Second - exact < DecimalSecond
             /\ short \in 0..exact /\ exact - short < 100 * DecimalSecond
<1>1. PICK d \in Nat, h \in Nat, m \in Nat, s \in Nat :
        /\ d = (n * Second) \div DecimalSecond
        /\ d * DecimalSecond <= n * Second /\ n * Second - d * DecimalSecond < DecimalSecond
        /\ h = d \div 10000 /\ m = (d \div 100) % 100 /\ s = d % 100
        /\ h <= 9 /\ m <= 99 /\ s <= 99
        /\ h * 10000 + m * 100 + s = d
  BY DecimalSum
<1> DEFINE face == [hour |-> h, minute |-> m, second |-> s, marker |-> "none"]
           bare == [hour |-> h, minute |-> m, second |-> Omitted, marker |-> "none"]
<1>2. Face("decimal-10", n * Second) = face /\ [face EXCEPT !.second = Omitted] = bare
  <2>1. Face("decimal-10", n * Second) = face
    BY <1>1, SMT DEF Face
  <2>2. QED BY <2>1, SMT
<1>3. SecondOf(face) = s /\ SecondOf(bare) = 0
  BY <1>1, SMT DEF SecondOf, Omitted
<1>4. parse_decimal(face) = d * DecimalSecond
  BY <1>1, <1>3, SMT DEF parse_decimal
<1>5. parse_decimal(bare) = (h * 10000 + m * 100 + 0) * DecimalSecond
  BY <1>1, <1>3, SMT DEF parse_decimal
<1>6. /\ d * DecimalSecond \in 0..(n * Second)
      /\ (h * 10000 + m * 100 + 0) * DecimalSecond \in 0..(d * DecimalSecond)
      /\ d * DecimalSecond - (h * 10000 + m * 100 + 0) * DecimalSecond < 100 * DecimalSecond
  <2>1. d * DecimalSecond \in 0..(n * Second)
    BY <1>1, SMT DEF DecimalSecond, Second
  <2>2. h * 10000 + m * 100 + s = d /\ s <= 99
    BY <1>1, SMT
  <2>3. /\ (h * 10000 + m * 100 + 0) * DecimalSecond \in 0..(d * DecimalSecond)
        /\ d * DecimalSecond - (h * 10000 + m * 100 + 0) * DecimalSecond < 100 * DecimalSecond
    BY ONLY <2>2, h \in Nat, m \in Nat, s \in Nat, d \in Nat, SMT DEF DecimalSecond
  <2>4. QED BY <2>1, <2>3
<1> HIDE DEF face, bare
<1>7. QED BY <1>1, <1>2, <1>4, <1>5, <1>6, SMT

\* In every profile what is filled in at any second of the day is accepted and
\* stands for that second, but for the unit that is not shown
\* (fill_manual_time_entries, ss_manual_time_parse).
THEOREM EveryProfileReversible == Reversible = Profile
<1> DEFINE Seconds == 0..86399
           Back(profile, n) ==
             LET face  == Face(profile, n * Second)
                 exact == ss_manual_time_parse(profile, face)
                 short == ss_manual_time_parse(profile, [face EXCEPT !.second = Omitted])
                 unit  == IF profile = "decimal-10" THEN DecimalSecond ELSE Second
                 scale == IF profile = "decimal-10" THEN 100 ELSE 60
             IN  /\ exact \in 0..(n * Second) /\ n * Second - exact < unit
                 /\ short \in 0..exact /\ exact - short < scale * unit
<1>1. Reversible = {profile \in Profile : \A n \in Seconds : Back(profile, n)}
  BY SMT DEF Reversible
<1>2. \A n \in Seconds : n \in Nat /\ n <= 86399
  BY SMT
<1> HIDE DEF Seconds
<1>3. ASSUME NEW profile \in Profile, NEW n \in Seconds PROVE Back(profile, n)
  <2>1. n \in Nat /\ n <= 86399
    BY <1>2
  <2>2. CASE profile = "conventional-12"
    BY ONLY <2>1, <2>2, Reversible12, SMT DEF ss_manual_time_parse
  <2>3. CASE profile = "conventional-24"
    BY ONLY <2>1, <2>3, Reversible24, SMT DEF ss_manual_time_parse
  <2>4. CASE profile = "decimal-10"
    BY ONLY <2>1, <2>4, ReversibleDecimal, SMT DEF ss_manual_time_parse
  <2>5. QED BY <2>2, <2>3, <2>4, SMT DEF Profile
<1> HIDE DEF Back
<1>4. QED BY <1>1, <1>3, SMT

-----------------------------------------------------------------------------
(***************************************************************************)
(* The editor.  Its inductive invariant: it is offered exactly when the    *)
(* window can read timedated, believes network time to be off and the      *)
(* clock can be typed; a draft exists only while the editor is offered or  *)
(* timedated cannot be read; and the last announcement on its way, or with *)
(* none what the window can read, is what timedated has, unless it is gone.*)
(***************************************************************************)
Announcement == Properties \cup {Absent}

OfferedAsCached == visible = (available /\ cache.ntp = "off" /\ Supported(mem))

DraftIsVisible == draft # Clean => visible \/ ~available

LastSignalIsCurrent ==
  IF signals = <<>>
    THEN available => cache = system
    ELSE signals[Len(signals)] \in {system, Absent}

IInv ==
  /\ TypeOK
  /\ OfferedAsCached
  /\ DraftIsVisible
  /\ LastSignalIsCurrent
  /\ OnlySilentChangesStrandADraft

\* What the editor does on every sync: it stays offered as cached, and a draft
\* survives only if the handler keeps it (ss_linux_date_time_system_time_sync).
LEMMA SyncKeeps ==
  ASSUME NEW keep \in BOOLEAN, sync(keep), draft \in Context \cup {Clean},
         available' \in BOOLEAN
  PROVE  /\ visible' \in BOOLEAN /\ OfferedAsCached' /\ DraftIsVisible'
         /\ draft' \in Context \cup {Clean}
         /\ draft' # Clean => draft' = draft /\ keep
BY Zenon DEF sync, OfferedAsCached, DraftIsVisible

\* A handler that saves or reloads the representation touches no property.
LEMMA PolicyHandlers ==
  ASSUME IInv, \/ \E mode \in Mode \ {LegacyMode} : on_clock_changed(mode)
               \/ on_seconds_changed
               \/ \E mode \in Standard : on_cinnamon_interface_changed(mode)
               \/ policy_file_changed
  PROVE  IInv'
<1>1. /\ mem \in Mode /\ file \in Mode /\ draft \in Context \cup {Clean}
      /\ available \in BOOLEAN
      /\ silent \/ (DraftInMode /\ DraftInZone)
  BY DEF IInv, TypeOK, OnlySilentChangesStrandADraft
<1>2. /\ UNCHANGED <<system, signals, replied, available, cache, regional>>
      /\ UNCHANGED changes \/ Count
  BY DEF on_clock_changed, on_seconds_changed, on_cinnamon_interface_changed,
         policy_file_changed, timedated, service
<1>3. file' \in Mode /\ mem' \in Mode /\ observed' \in BOOLEAN
  BY <1>1
  DEF on_clock_changed, on_seconds_changed, on_cinnamon_interface_changed,
      policy_file_changed, Save, Mode
<1>4. PICK keep \in BOOLEAN, unnoticed \in BOOLEAN :
        sync(keep) /\ Note(unnoticed) /\ (keep /\ ~unnoticed => mem' = mem)
  <2>1. CASE \E mode \in Mode \ {LegacyMode} : on_clock_changed(mode)
    BY <2>1 DEF on_clock_changed
  <2>2. CASE on_seconds_changed
    BY <2>2 DEF on_seconds_changed, Save
  <2>3. CASE \E mode \in Standard : on_cinnamon_interface_changed(mode)
    BY <2>3 DEF on_cinnamon_interface_changed
  <2>4. CASE policy_file_changed
    BY <2>4 DEF policy_file_changed
  <2>5. QED BY <2>1, <2>2, <2>3, <2>4
<1>5. /\ visible' \in BOOLEAN /\ OfferedAsCached' /\ DraftIsVisible'
      /\ draft' \in Context \cup {Clean}
      /\ draft' # Clean => draft' = draft /\ keep
  BY <1>1, <1>2, <1>4, SyncKeeps
<1>6. silent' = (draft' # Clean /\ (silent \/ unnoticed))
  BY <1>4 DEF Note
<1>7. TypeOK'
  <2>1. changes' \in 0..MaxChanges
    BY <1>2, BoundAssumption DEF IInv, TypeOK, Count
  <2>2. silent' \in BOOLEAN
    BY <1>6
  <2>3. QED BY <1>2, <1>3, <1>5, <2>1, <2>2 DEF IInv, TypeOK
<1>8. LastSignalIsCurrent'
  BY <1>2 DEF IInv, LastSignalIsCurrent
<1>9. OnlySilentChangesStrandADraft'
  <2>1. CASE draft' = Clean
    BY <2>1 DEF OnlySilentChangesStrandADraft, DraftInMode, DraftInZone
  <2>2. CASE draft' # Clean /\ ~silent /\ ~unnoticed
    <3>1. draft' = draft /\ mem' = mem /\ cache' = cache /\ DraftInMode /\ DraftInZone
      BY <1>1, <1>2, <1>4, <1>5, <2>2
    <3>2. QED BY <3>1 DEF OnlySilentChangesStrandADraft, DraftInMode, DraftInZone
  <2>3. CASE draft' # Clean /\ (silent \/ unnoticed)
    BY <1>6, <2>3 DEF OnlySilentChangesStrandADraft
  <2>4. QED BY <2>1, <2>2, <2>3
<1>10. QED BY <1>5, <1>7, <1>8, <1>9 DEF IInv

\* The window takes over what timedated has announced, or what it asked for.
LEMMA TimedatedHandlers ==
  ASSUME IInv, \/ reconcile_system_time_change \/ system_time_unavailable
               \/ operation_applied
  PROVE  IInv'
<1>1. /\ mem \in Mode /\ file \in Mode /\ draft \in Context \cup {Clean}
      /\ signals \in Seq(Announcement) /\ system \in Properties /\ cache \in Properties
      /\ available \in BOOLEAN
      /\ silent \/ (DraftInMode /\ DraftInZone)
  BY DEF IInv, TypeOK, OnlySilentChangesStrandADraft, Announcement
<1>2. UNCHANGED <<file, observed, system, changes>> /\ regional' \in {regional, system.zone}
  BY DEF reconcile_system_time_change, system_time_unavailable, operation_applied, policy
<1>3. /\ signals' \in Seq(Announcement) /\ cache' \in Properties
      /\ available' \in BOOLEAN /\ LastSignalIsCurrent'
  <2>1. CASE operation_applied
    BY <1>1, <1>2, <2>1 DEF operation_applied, service, IInv, LastSignalIsCurrent
  <2>2. CASE reconcile_system_time_change \/ system_time_unavailable
    <3>1. /\ signals # <<>> /\ signals' = Tail(signals)
          /\ \/ Head(signals) # Absent /\ available' = TRUE /\ cache' = Head(signals)
             \/ Head(signals) = Absent /\ available' = FALSE /\ cache' = cache
          /\ signals[Len(signals)] \in {system, Absent}
      BY <2>2 DEF reconcile_system_time_change, system_time_unavailable, IInv,
                  LastSignalIsCurrent
    <3>2. /\ signals' \in Seq(Announcement) /\ cache' \in Properties
          /\ available' \in BOOLEAN
      <4>1. Head(signals) \in Announcement
        BY <1>1, <3>1
      <4>2. signals' \in Seq(Announcement)
        BY <1>1, <3>1
      <4>3. available' \in BOOLEAN
        BY <3>1
      <4>4. cache' \in Properties
        BY <1>1, <3>1, <4>1 DEF Announcement
      <4>5. QED BY <4>2, <4>3, <4>4
    <3>3. /\ Len(signals) \in Nat /\ Len(signals) >= 1 /\ Head(signals) = signals[1]
          /\ Len(Tail(signals)) = Len(signals) - 1
          /\ \A k \in 1..(Len(signals) - 1) : Tail(signals)[k] = signals[k + 1]
      BY <1>1, <3>1, HeadTailProperties
    <3>4. CASE Len(signals) = 1
      <4>1. signals' = <<>>
        BY <3>1, <3>2, <3>3, <3>4, EmptySeq
      <4>2. available' => cache' = system'
        BY <1>2, <3>1, <3>3, <3>4
      <4>3. QED BY <3>2, <4>1, <4>2 DEF LastSignalIsCurrent
    <3>5. CASE Len(signals) # 1
      <4>1. Len(signals') >= 1 /\ signals'[Len(signals')] = signals[Len(signals)]
        BY <3>1, <3>3, <3>5
      <4>2. signals' # <<>>
        BY <4>1
      <4>3. QED BY <1>2, <3>1, <3>2, <4>1, <4>2 DEF LastSignalIsCurrent
    <3>6. QED BY <3>4, <3>5
  <2>3. QED BY <2>1, <2>2
<1>4. mem' \in Mode /\ replied' \in BOOLEAN /\ regional' \in Zone
  <2>1. mem' \in {mem, file} /\ replied' \in {FALSE, replied}
    BY DEF reconcile_system_time_change, system_time_unavailable, operation_applied, policy
  <2>2. QED BY <1>1, <1>2, <2>1 DEF IInv, TypeOK, Properties
<1>5. PICK keep \in BOOLEAN, unnoticed \in BOOLEAN :
        /\ sync(keep) /\ Note(unnoticed)
        /\ keep /\ ~unnoticed => mem' = mem /\ cache'.zone = cache.zone
  <2>1. CASE operation_applied
    BY <2>1 DEF operation_applied
  <2>2. CASE system_time_unavailable
    BY <2>2 DEF system_time_unavailable, policy
  <2>3. CASE reconcile_system_time_change
    <3> DEFINE changed == regional # cache'.zone
               unseen == mem' # mem \/ (cache'.zone # cache.zone /\ ~changed)
    <3>1. sync(~changed /\ cache'.ntp = "off") /\ Note(unseen)
      BY <2>3 DEF reconcile_system_time_change
    <3>2. (~changed /\ cache'.ntp = "off") \in BOOLEAN /\ unseen \in BOOLEAN
      OBVIOUS
    <3>3. (~changed /\ cache'.ntp = "off") /\ ~unseen => mem' = mem /\ cache'.zone = cache.zone
      OBVIOUS
    <3> HIDE DEF changed, unseen
    <3>4. QED BY <3>1, <3>2, <3>3
  <2>4. QED BY <2>1, <2>2, <2>3
<1>6. /\ visible' \in BOOLEAN /\ OfferedAsCached' /\ DraftIsVisible'
      /\ draft' \in Context \cup {Clean}
      /\ draft' # Clean => draft' = draft /\ keep
  BY <1>1, <1>3, <1>5, SyncKeeps
<1>7. silent' = (draft' # Clean /\ (silent \/ unnoticed))
  BY <1>5 DEF Note
<1>8. TypeOK'
  <2>1. silent' \in BOOLEAN
    BY <1>7
  <2>2. QED BY <1>2, <1>3, <1>4, <1>6, <2>1 DEF IInv, TypeOK, Announcement
<1>9. OnlySilentChangesStrandADraft'
  <2>1. CASE draft' = Clean
    BY <2>1 DEF OnlySilentChangesStrandADraft, DraftInMode, DraftInZone
  <2>2. CASE draft' # Clean /\ ~silent /\ ~unnoticed
    <3>1. /\ draft' = draft /\ mem' = mem /\ cache'.zone = cache.zone
          /\ DraftInMode /\ DraftInZone
      BY <1>1, <1>5, <1>6, <2>2
    <3>2. QED BY <3>1 DEF OnlySilentChangesStrandADraft, DraftInMode, DraftInZone
  <2>3. CASE draft' # Clean /\ (silent \/ unnoticed)
    BY <1>7, <2>3 DEF OnlySilentChangesStrandADraft
  <2>4. QED BY <2>1, <2>2, <2>3
<1>10. QED BY <1>3, <1>6, <1>8, <1>9 DEF IInv

\* The user starts a draft, timedated and other programs change what is theirs.
LEMMA OtherSteps ==
  ASSUME IInv, \/ on_manual_entry_changed \/ policy_file_changed_fails
               \/ timedated_applies \/ ServiceVanishes
               \/ OtherProgramSets \/ OtherProcessSaves \/ UNCHANGED vars
  PROVE  IInv'
<1>1. /\ signals \in Seq(Announcement) /\ mem \in Mode /\ cache \in Properties
      /\ system \in Properties
  BY DEF IInv, TypeOK, Announcement
<1>2. CASE on_manual_entry_changed
  <2>1. /\ visible /\ draft' = [mode |-> mem, zone |-> cache.zone]
        /\ UNCHANGED <<file, mem, observed, system, signals, replied, available, cache,
                       regional, visible, silent, changes>>
    BY <1>2 DEF on_manual_entry_changed, policy, timedated, service
  <2>2. draft' \in Context
    BY <1>1, <2>1 DEF Context, Properties
  <2>3. TypeOK'
    BY <2>1, <2>2 DEF IInv, TypeOK
  <2>4. OnlySilentChangesStrandADraft'
    BY <2>1 DEF OnlySilentChangesStrandADraft, DraftInMode, DraftInZone
  <2>5. QED
    BY <2>1, <2>3, <2>4
    DEF IInv, OfferedAsCached, DraftIsVisible, LastSignalIsCurrent
<1>3. CASE timedated_applies \/ ServiceVanishes \/ OtherProgramSets
  <2>1. /\ UNCHANGED <<file, mem, observed, available, cache, regional, draft, visible, silent>>
        /\ Count /\ system' \in Properties
        /\ \/ system' = system /\ signals' = signals
           \/ \E last \in {system', Absent} : signals' = Append(signals, last)
    BY <1>1, <1>3 DEF timedated_applies, ServiceVanishes, OtherProgramSets, policy, service
  <2>2. replied' \in BOOLEAN
    BY <1>3 DEF timedated_applies, ServiceVanishes, OtherProgramSets, IInv, TypeOK
  <2>3. signals' \in Seq(Announcement) /\ LastSignalIsCurrent'
    <3>1. CASE system' = system /\ signals' = signals
      BY <1>1, <2>1, <3>1 DEF IInv, LastSignalIsCurrent
    <3>2. ASSUME NEW last \in {system', Absent}, signals' = Append(signals, last)
          PROVE  signals' \in Seq(Announcement) /\ LastSignalIsCurrent'
      <4>1. last \in Announcement
        BY <2>1 DEF Announcement
      <4>2. /\ signals' \in Seq(Announcement) /\ signals' # <<>>
            /\ signals'[Len(signals')] = last
        BY <1>1, <3>2, <4>1
      <4>3. QED BY <4>2 DEF LastSignalIsCurrent
    <3>3. QED BY <2>1, <3>1, <3>2
  <2>4. changes' \in 0..MaxChanges
    BY <2>1, BoundAssumption DEF IInv, TypeOK, Count
  <2>5. TypeOK'
    BY <2>1, <2>2, <2>3, <2>4 DEF IInv, TypeOK, Announcement
  <2>6. QED
    BY <2>1, <2>3, <2>5
    DEF IInv, OfferedAsCached, DraftIsVisible, OnlySilentChangesStrandADraft, DraftInMode,
        DraftInZone
<1>4. CASE policy_file_changed_fails \/ OtherProcessSaves \/ UNCHANGED vars
  <2>1. /\ UNCHANGED <<mem, system, signals, replied, available, cache, regional, draft,
                       visible, silent>>
        /\ file' \in Mode /\ observed' \in BOOLEAN
        /\ UNCHANGED changes \/ Count
    BY <1>4 DEF policy_file_changed_fails, OtherProcessSaves, vars, timedated, service, policy,
                IInv, TypeOK
  <2>2. changes' \in 0..MaxChanges
    BY <2>1, BoundAssumption DEF IInv, TypeOK, Count
  <2>3. TypeOK'
    BY <2>1, <2>2 DEF IInv, TypeOK
  <2>4. QED
    BY <2>1, <2>3
    DEF IInv, OfferedAsCached, DraftIsVisible, LastSignalIsCurrent,
        OnlySilentChangesStrandADraft, DraftInMode, DraftInZone
<1>5. QED BY <1>2, <1>3, <1>4

\* The inductive invariant holds when the controls have been filled in.
LEMMA InvInit == Init => IInv
<1> SUFFICES ASSUME Init PROVE IInv
  OBVIOUS
<1>1. visible \in BOOLEAN /\ OfferedAsCached
  BY DEF Init, OfferedAsCached
<1>2. TypeOK
  <2>1. /\ regional \in Zone /\ changes \in 0..MaxChanges
        /\ signals \in Seq(Properties \cup {Absent})
        /\ draft \in Context \cup {Clean}
    BY BoundAssumption DEF Init, Properties
  <2>2. QED BY <1>1, <2>1 DEF Init, TypeOK
<1>3. DraftIsVisible /\ LastSignalIsCurrent /\ OnlySilentChangesStrandADraft
  BY DEF Init, DraftIsVisible, LastSignalIsCurrent, OnlySilentChangesStrandADraft,
         DraftInMode, DraftInZone
<1>4. QED BY <1>1, <1>2, <1>3 DEF IInv

\* Every handler and every change from outside keeps it.
LEMMA InvStep == IInv /\ [Next]_vars => IInv'
BY PolicyHandlers, TimedatedHandlers, OtherSteps DEF Next

\* The inductive invariant holds throughout every behaviour.
THEOREM Invariance == Spec => []IInv
BY InvInit, InvStep, PTL DEF Spec

\* A draft loses the clock or the zone it was typed in only through a handler
\* that takes over a new representation, or refreshes the regional context,
\* without comparing; whatever the representations and zones are.
THEOREM DraftsKeepTheirMeaning == Spec => []OnlySilentChangesStrandADraft
<1>1. IInv => OnlySilentChangesStrandADraft
  BY DEF IInv
<1>2. QED BY <1>1, Invariance, PTL

\* The editor is well typed and, once the announcements under way are handled,
\* hidden while network time is on.
THEOREM EditorIsConsistent == Spec => []DraftInvariant
<1>1. IInv => DraftInvariant
  BY DEF IInv, DraftInvariant, EditorHiddenUnderNtp, OfferedAsCached, LastSignalIsCurrent,
         TypeOK
<1>2. QED BY <1>1, Invariance, PTL

\* Whenever the editor is offered, it is offered in a clock whose texts are read
\* back exactly: no two-digit fields, no gap in the day and no second of the day
\* is an exception.
THEOREM EditorAlwaysReadsBack == Spec => []EditorReadsBack
<1>1. ASSUME NEW mode, NEW desktop \in Standard, Supported(mode)
      PROVE  profile_for_mode(mode, desktop) \in Profile
  <2>1. CASE mode = LegacyMode
    BY <2>1 DEF profile_for_mode, Profile, Standard
  <2>2. CASE mode # LegacyMode
    BY <1>1, <2>2 DEF profile_for_mode, Supported
  <2>3. QED BY <2>1, <2>2
<1>2. IInv => EditorReadsBack
  BY <1>1, EveryProfileExact, EveryProfileReversible DEF IInv, OfferedAsCached, EditorReadsBack
<1>3. QED BY <1>2, Invariance, PTL
=============================================================================
