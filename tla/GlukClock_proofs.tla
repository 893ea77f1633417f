-------------------------- MODULE GlukClock_proofs --------------------------
(* The count of gluk_inc follows the calendar, and the AVR shows what the chip *)
(* has, for calendars of any size.                                            *)
EXTENDS GlukClock, TLAPS

LEMMA CalendarFacts ==
  /\ {Secs, Mins, Hours, WDays, Months, Years} \subseteq Nat \ {0}
  /\ Secs > 1 /\ Years % 4 = 0
  /\ Days \in [1..Months -> Nat \ {0}]
  /\ \A m \in 1..Months : Days[m] = Feb <=> m = February
BY GlukAssumption DEF GlukAssumption

LEMMA Sizes ==
  /\ Secs \in Nat /\ Secs > 1 /\ Mins \in Nat /\ Mins > 0 /\ Hours \in Nat /\ Hours > 0
  /\ WDays \in Nat /\ WDays > 0 /\ Months \in Nat /\ Months > 0
  /\ Years \in Nat /\ Years > 0
BY CalendarFacts

\* days_of_months and the calendar agree on the length of a month.
LEMMA MonthsAgree ==
  ASSUME NEW c, Date(c)
  PROVE  /\ DaysOfMonth(c) = MonthLength(c.month, c.year)
         /\ DaysOfMonth(c) \in Nat \ {0}
<1>1. c.month \in 1..Months /\ c.year \in 0..Years-1
  BY DEF Date
<1>2. Days[c.month] \in Nat \ {0}
  BY <1>1, CalendarFacts
<1>3. DaysOfMonth(c) = MonthLength(c.month, c.year)
  BY <1>1, CalendarFacts DEF DaysOfMonth, MonthLength
<1>4. CASE Days[c.month] = Feb /\ c.year % 4 = 0
  BY <1>2, <1>3, <1>4 DEF DaysOfMonth
<1>5. CASE ~(Days[c.month] = Feb /\ c.year % 4 = 0)
  BY <1>2, <1>3, <1>5 DEF DaysOfMonth
<1> QED
  BY <1>4, <1>5

\* The date after c, field by field.
LEMMA IncFields ==
  ASSUME NEW c
  PROVE  LET s == c.sec >= Secs - 1
             m == s /\ c.min >= Mins - 1
             h == m /\ c.hour >= Hours - 1
             d == h /\ c.day >= DaysOfMonth(c)
             y == d /\ c.month >= Months
         IN  /\ Inc(c).sec = IF s THEN 0 ELSE c.sec + 1
             /\ Inc(c).min = IF ~s THEN c.min ELSE IF m THEN 0 ELSE c.min + 1
             /\ Inc(c).hour = IF ~m THEN c.hour ELSE IF h THEN 0 ELSE c.hour + 1
             /\ Inc(c).wday = IF ~h THEN c.wday
                              ELSE IF c.wday >= WDays THEN 1 ELSE c.wday + 1
             /\ Inc(c).day = IF ~h THEN c.day ELSE IF d THEN 1 ELSE c.day + 1
             /\ Inc(c).month = IF ~d THEN c.month ELSE IF y THEN 1 ELSE c.month + 1
             /\ Inc(c).year = IF ~y THEN c.year
                              ELSE IF c.year >= Years - 1 THEN 0 ELSE c.year + 1
BY DEF Inc, Fields, Carries, Below, Last, First

\* Dates compare by the year, then the month, and so on.
LEMMA BeforeIs ==
  ASSUME NEW c, NEW d, Before(c, d)
  PROVE  \/ c.year < d.year
         \/ c.year = d.year /\ c.month < d.month
         \/ c.year = d.year /\ c.month = d.month /\ c.day < d.day
         \/ /\ c.year = d.year /\ c.month = d.month /\ c.day = d.day
            /\ c.hour < d.hour
         \/ /\ c.year = d.year /\ c.month = d.month /\ c.day = d.day
            /\ c.hour = d.hour /\ c.min < d.min
         \/ /\ c.year = d.year /\ c.month = d.month /\ c.day = d.day
            /\ c.hour = d.hour /\ c.min = d.min /\ c.sec < d.sec
BY DEF Before, Fields, Below

LEMMA IncDate == ASSUME NEW c, Date(c) PROVE Date(Inc(c))
<1>1. /\ c.month \in 1..Months /\ c.year \in 0..Years-1
      /\ c.day \in 1..DaysOfMonth(c) /\ c.wday \in 1..WDays
      /\ c.hour \in 0..Hours-1 /\ c.min \in 0..Mins-1 /\ c.sec \in 0..Secs-1
      /\ DaysOfMonth(c) \in Nat \ {0}
  BY MonthsAgree DEF Date
<1> DEFINE i == Inc(c)
           h == c.sec >= Secs - 1 /\ c.min >= Mins - 1 /\ c.hour >= Hours - 1
           d == h /\ c.day >= DaysOfMonth(c)
<1>2. /\ i.month \in 1..Months /\ i.year \in 0..Years-1 /\ i.wday \in 1..WDays
      /\ i.hour \in 0..Hours-1 /\ i.min \in 0..Mins-1 /\ i.sec \in 0..Secs-1
  <2> HIDE DEF i
  <2>1. i.sec \in 0..Secs-1
    BY <1>1, IncFields, Sizes DEF i
  <2>2. i.min \in 0..Mins-1
    BY <1>1, IncFields, Sizes DEF i
  <2>3. i.hour \in 0..Hours-1
    BY <1>1, IncFields, Sizes DEF i
  <2>4. i.wday \in 1..WDays
    BY <1>1, IncFields, Sizes DEF i
  <2>5. i.month \in 1..Months
    BY <1>1, IncFields, Sizes DEF i
  <2>6. i.year \in 0..Years-1
    BY <1>1, IncFields, Sizes DEF i
  <2> QED
    BY <2>1, <2>2, <2>3, <2>4, <2>5, <2>6
<1>3. CASE ~d
  <2>1. i.month = c.month /\ i.year = c.year
    BY <1>3, IncFields
  <2>2. i.day \in 1..DaysOfMonth(c)
    BY <1>1, <1>3, IncFields
  <2>3. i.day \in 1..MonthLength(i.month, i.year)
    BY <2>1, <2>2, MonthsAgree
  <2> QED
    BY <1>2, <2>3 DEF Date
<1>4. CASE d
  <2>1. i.day = 1
    BY <1>4, IncFields
  <2>2. Days[i.month] \in Nat \ {0}
    BY <1>2, CalendarFacts
  <2>3. MonthLength(i.month, i.year) \in Nat \ {0}
    <3>1. CASE i.month = February /\ i.year % 4 = 0
      <4>1. MonthLength(i.month, i.year) = Feb + 1
        BY <3>1 DEF MonthLength
      <4>2. Days[i.month] = Feb
        BY <1>2, <3>1, CalendarFacts
      <4> QED
        BY <2>2, <4>1, <4>2
    <3>2. CASE ~(i.month = February /\ i.year % 4 = 0)
      BY <2>2, <3>2 DEF MonthLength
    <3> QED
      BY <3>1, <3>2
  <2> QED
    BY <1>2, <2>1, <2>3 DEF Date
<1> QED
  BY <1>3, <1>4

\* No date of the calendar lies between c and the date counted after it.
LEMMA NoneBetween ==
  ASSUME NEW c, Date(c), NEW e, Date(e), Before(c, e), Before(e, Inc(c))
  PROVE  FALSE
<1>1. /\ c.month \in 1..Months /\ c.year \in 0..Years-1
      /\ c.day \in 1..DaysOfMonth(c)
      /\ c.hour \in 0..Hours-1 /\ c.min \in 0..Mins-1 /\ c.sec \in 0..Secs-1
      /\ DaysOfMonth(c) \in Nat \ {0}
  BY MonthsAgree DEF Date
<1>2. /\ e.month \in 1..Months /\ e.year \in 0..Years-1
      /\ e.day \in Nat \ {0}
      /\ e.hour \in 0..Hours-1 /\ e.min \in 0..Mins-1 /\ e.sec \in 0..Secs-1
      /\ e.day \in 1..DaysOfMonth(e) /\ DaysOfMonth(e) \in Nat
  BY MonthsAgree DEF Date
<1>3. e.year = c.year /\ e.month = c.month => e.day <= DaysOfMonth(c)
  BY <1>2 DEF DaysOfMonth
<1> DEFINE s == c.sec >= Secs - 1
           m == s /\ c.min >= Mins - 1
           h == m /\ c.hour >= Hours - 1
           d == h /\ c.day >= DaysOfMonth(c)
           y == d /\ c.month >= Months
           i == Inc(c)
<1>4. /\ i.sec = IF s THEN 0 ELSE c.sec + 1
      /\ i.min = IF ~s THEN c.min ELSE IF m THEN 0 ELSE c.min + 1
      /\ i.hour = IF ~m THEN c.hour ELSE IF h THEN 0 ELSE c.hour + 1
      /\ i.day = IF ~h THEN c.day ELSE IF d THEN 1 ELSE c.day + 1
      /\ i.month = IF ~d THEN c.month ELSE IF y THEN 1 ELSE c.month + 1
      /\ i.year = IF ~y THEN c.year
                  ELSE IF c.year >= Years - 1 THEN 0 ELSE c.year + 1
  BY IncFields
<1> HIDE DEF i
<1>5. \/ e.year < i.year
      \/ e.year = i.year /\ e.month < i.month
      \/ e.year = i.year /\ e.month = i.month /\ e.day < i.day
      \/ e.year = i.year /\ e.month = i.month /\ e.day = i.day /\ e.hour < i.hour
      \/ /\ e.year = i.year /\ e.month = i.month /\ e.day = i.day
         /\ e.hour = i.hour /\ e.min < i.min
      \/ /\ e.year = i.year /\ e.month = i.month /\ e.day = i.day
         /\ e.hour = i.hour /\ e.min = i.min /\ e.sec < i.sec
  BY BeforeIs DEF i
<1>6. CASE c.year < e.year
  BY <1>1, <1>2, <1>4, <1>5, <1>6, Sizes
<1>7. CASE c.year = e.year /\ c.month < e.month
  BY <1>1, <1>2, <1>4, <1>5, <1>7, Sizes
<1>8. CASE c.year = e.year /\ c.month = e.month /\ c.day < e.day
  BY <1>1, <1>2, <1>3, <1>4, <1>5, <1>8, Sizes
<1>9. CASE /\ c.year = e.year /\ c.month = e.month /\ c.day = e.day
           /\ c.hour < e.hour
  BY <1>1, <1>2, <1>4, <1>5, <1>9, Sizes
<1>10. CASE /\ c.year = e.year /\ c.month = e.month /\ c.day = e.day
            /\ c.hour = e.hour /\ c.min < e.min
  BY <1>1, <1>2, <1>4, <1>5, <1>10, Sizes
<1>11. CASE /\ c.year = e.year /\ c.month = e.month /\ c.day = e.day
            /\ c.hour = e.hour /\ c.min = e.min /\ c.sec < e.sec
  BY <1>1, <1>2, <1>4, <1>5, <1>11, Sizes
<1> QED
  BY <1>6, <1>7, <1>8, <1>9, <1>10, <1>11, BeforeIs

\* INT7 takes a date of the calendar to the next one (gluk_inc).
THEOREM CountsDates == Spec => NextDate
<1> DEFINE Counts == Int7 /\ Date(regs) =>
             /\ Date(regs')
             /\ \A d \in Calendar : Before(regs, d) => ~Before(d, regs')
<1>1. Counts
  <2> SUFFICES ASSUME Int7, Date(regs) PROVE Counts
    OBVIOUS
  <2>1. regs' = Inc(regs)
    BY DEF Int7
  <2>2. Date(Inc(regs))
    BY IncDate
  <2>3. \A d \in Calendar : Date(d)
    BY DEF Calendar
  <2>4. \A d \in Calendar : Before(regs, d) => ~Before(d, Inc(regs))
    BY <2>3, NoneBetween
  <2> QED
    BY <2>1, <2>2, <2>4
<1>2. Spec => [][Counts]_vars
  BY <1>1, PTL DEF Spec
<1> QED
  BY <1>2 DEF NextDate

-----------------------------------------------------------------------------
(* Ranges *)

\* The count keeps every field in range, also behind a time that was set out of it.
LEMMA IncRange ==
  ASSUME NEW c \in [Fields -> Nat], InRange(c)
  PROVE  /\ Inc(c) \in [Fields -> Nat] /\ InRange(Inc(c))
         /\ c.sec < Secs /\ c.min < Mins /\ c.hour < Hours =>
              Inc(c).sec < Secs /\ Inc(c).min < Mins /\ Inc(c).hour < Hours
<1>1. /\ c.sec \in 0..Secs /\ c.min \in 0..Mins /\ c.hour \in 0..Hours
      /\ c.wday \in 1..WDays /\ c.day # 0 /\ c.month \in 1..Months /\ c.year \in 0..Years-1
      /\ c.day \in Nat
  BY DEF InRange, Fields
<1>2. DaysOfMonth(c) \in Nat \ {0}
  <2>1. Days[c.month] \in Nat \ {0}
    BY <1>1, CalendarFacts
  <2>2. Days[c.month] = Feb => Feb \in Nat
    BY <2>1
  <2> QED
    BY <2>1, <2>2 DEF DaysOfMonth
<1> DEFINE i == Inc(c)
<1>3. InRange(i)
  <2> HIDE DEF i
  <2>1. i.sec \in 0..Secs
    BY <1>1, IncFields, Sizes DEF i
  <2>2. i.min \in 0..Mins
    BY <1>1, IncFields, Sizes DEF i
  <2>3. i.hour \in 0..Hours
    BY <1>1, IncFields, Sizes DEF i
  <2>4. i.wday \in 1..WDays
    BY <1>1, IncFields, Sizes DEF i
  <2>5. i.day # 0
    BY <1>1, <1>2, IncFields, Sizes DEF i
  <2>6. i.month \in 1..Months
    BY <1>1, IncFields, Sizes DEF i
  <2>7. i.year \in 0..Years-1
    BY <1>1, IncFields, Sizes DEF i
  <2> QED
    BY <2>1, <2>2, <2>3, <2>4, <2>5, <2>6, <2>7 DEF InRange
<1>4. i \in [Fields -> Nat]
  <2>1. ASSUME NEW f \in Fields
        PROVE  (IF ~Carries(f, c) THEN c[f]
                ELSE IF c[f] >= Last(f, c) THEN First(f) ELSE c[f] + 1) \in Nat
    <3>1. c[f] \in Nat /\ First(f) \in Nat
      BY DEF First
    <3> QED
      BY <3>1
  <2> QED
    BY <2>1 DEF Inc
<1>5. c.sec < Secs /\ c.min < Mins /\ c.hour < Hours =>
        i.sec < Secs /\ i.min < Mins /\ i.hour < Hours
  <2> SUFFICES ASSUME c.sec < Secs, c.min < Mins, c.hour < Hours
               PROVE  i.sec < Secs /\ i.min < Mins /\ i.hour < Hours
    OBVIOUS
  <2> HIDE DEF i
  <2>1. i.sec < Secs
    BY <1>1, IncFields, Sizes DEF i
  <2>2. i.min < Mins
    BY <1>1, IncFields, Sizes DEF i
  <2>3. i.hour < Hours
    BY <1>1, IncFields, Sizes DEF i
  <2> QED
    BY <2>1, <2>2, <2>3
<1> QED
  BY <1>3, <1>4, <1>5

\* A second changes nothing but the seconds, or takes them to zero.
LEMMA IncSecond ==
  ASSUME NEW c \in [Fields -> Nat]
  PROVE  /\ Inc(c).sec = 0 \/ \A f \in Fields \ {"sec"} : Inc(c)[f] = c[f]
         /\ c.sec = 0 => \A f \in Fields \ {"sec"} : Inc(c)[f] = c[f]
<1>1. c.sec \in Nat
  BY DEF Fields
<1>2. CASE c.sec >= Secs - 1
  BY <1>1, <1>2, IncFields, Sizes
<1>3. CASE ~(c.sec >= Secs - 1)
  <2>1. ASSUME NEW f \in Fields \ {"sec"} PROVE Inc(c)[f] = c[f]
    <3>1. ~Carries(f, c)
      <4>1. "sec" \in Below(f)
        BY DEF Fields, Below
      <4>2. Last("sec", c) = Secs - 1
        BY DEF Last
      <4> QED
        BY <1>3, <4>1, <4>2 DEF Carries
    <3> QED
      BY <3>1 DEF Inc
  <2> QED
    BY <2>1
<1> QED
  BY <1>2, <1>3

\* A calendar date is in range.
LEMMA DatesInRange ==
  ASSUME NEW c \in [Fields -> Nat], Date(c)
  PROVE  /\ c.wday \in 1..WDays /\ c.day # 0 /\ c.month \in 1..Months /\ c.year \in 0..Years-1
         /\ c.sec \in 0..Secs /\ c.min \in 0..Mins /\ c.hour \in 0..Hours
BY MonthsAgree, Sizes DEF Date

-----------------------------------------------------------------------------
(* The year that comes back from two bits *)

LEMMA YearInRange ==
  ASSUME yearAdd \in 0..Years-1, NEW y \in Nat
  PROVE  YearFrom(y % 4) \in 0..Years-1
BY CalendarFacts, Sizes DEF YearFrom

LEMMA YearComesBack ==
  ASSUME yearAdd \in 0..Years-1, chip.year \in 0..Years-1, Recent
  PROVE  YearFrom(chip.year % 4) = chip.year
<1> DEFINE y == chip.year
           a == yearAdd
<1>1. y \in Nat /\ a \in Nat /\ y < Years /\ a < Years /\ Years \in Nat \ {0} /\ Years % 4 = 0
  BY CalendarFacts, Sizes
<1>2. y + Years - a \in Nat /\ y + Years - a < 2 * Years
  BY <1>1
<1>3. (y + Years - a) % Years = IF y + Years - a < Years THEN y + Years - a ELSE y - a
  BY <1>1, <1>2
<1>4. (y + Years - a) % Years < 4
  BY DEF Recent
<1> HIDE DEF y, a
<1>5. CASE y >= a
  <2>1. y - a < 4
    BY <1>1, <1>3, <1>4, <1>5
  <2> QED
    BY <1>1, <1>5, <2>1 DEF YearFrom, y, a
<1>6. CASE y < a
  <2>1. y + Years - a < 4
    BY <1>1, <1>3, <1>4, <1>6
  <2> QED
    BY <1>1, <1>6, <2>1 DEF YearFrom, y, a
<1> QED
  BY <1>1, <1>5, <1>6

-----------------------------------------------------------------------------
(* The AVR shows the date of the chip *)

Time == {"sec", "min", "hour"}

GTypes ==
  /\ chip \in [Fields -> Nat] /\ InRange(chip)
  /\ regs \in [Fields -> Nat] /\ InRange(regs)
  /\ chip.sec < Secs /\ chip.min < Mins /\ chip.hour < Hours
  /\ yearAdd \in 0..Years-1
  /\ uf \in BOOLEAN /\ acc \in BOOLEAN /\ intf \in BOOLEAN
  /\ ticked \in BOOLEAN /\ apart \in BOOLEAN /\ updated \in BOOLEAN
  /\ pc \in {"off", "month", "day", "hour", "min", "sec", "run", "told", "toggle",
             "yearAdd", "write"}
  /\ pass \in 1..2
  /\ data \in [field : Fields, value : Nat]

\* The fields start-up has read when it comes to p.
ReadBefore(p) ==
  CASE p = "day"  -> {"wday", "month"}
    [] p = "hour" -> {"wday", "month", "day", "year"}
    [] p = "min"  -> {"wday", "month", "day", "year", "hour"}
    [] p = "sec"  -> {"wday", "month", "day", "year", "hour", "min"}
    [] OTHER      -> {}

\* What has been read is what the chip has, a year too old to come back aside.
SameSoFar == \A f \in ReadBefore(pc) : regs[f] = chip[f] \/ (f = "year" /\ apart)

\* A carry in the first pass shows in seconds of zero; the second pass begins with
\* them, so that it meets no carry.
InReading ==
  /\ intf <=> ticked
  /\ pass = 1 => SameSoFar \/ (ticked /\ chip.sec = 0)
  /\ pass = 2 => SameSoFar /\ (ticked \/ chip.sec = 0)

\* The AVR is ahead of the chip by the field that is being set.
InSetting == ~intf /\ regs = [chip EXCEPT ![data.field] = data.value]

Ahead == (IF intf THEN Inc(regs) ELSE regs) \in {chip, Inc(chip)}

GFollow ==
  /\ Reading => InReading
  /\ Setting /\ data.field \notin Time => Date(regs)
  /\ Setting /\ ~apart => InSetting
  /\ pc \in {"run", "told", "toggle"} /\ ~apart => Ahead

\* The inductive invariant.
GInv == GTypes /\ GFollow

\* Two dates with the same fields are the same.
LEMMA SameFields ==
  ASSUME NEW c \in [Fields -> Nat], NEW d \in [Fields -> Nat],
         \A f \in Fields : c[f] = d[f]
  PROVE  c = d
OBVIOUS

LEMMA StartStep == ASSUME GInv, Start PROVE GInv'
<1>1. /\ pc' = "month" /\ pass' = 1 /\ ~intf' /\ ~ticked'
      /\ uf' \in BOOLEAN /\ acc' \in BOOLEAN /\ intf' \in BOOLEAN
      /\ ticked' \in BOOLEAN /\ apart' \in BOOLEAN /\ updated' \in BOOLEAN
      /\ UNCHANGED <<chip, yearAdd, regs, data>>
  BY DEF Start
<1>2. GTypes'
  BY <1>1 DEF GInv, GTypes
<1>3. InReading'
  BY <1>1 DEF InReading, SameSoFar, ReadBefore
<1> QED
  BY <1>1, <1>2, <1>3 DEF GInv, GFollow, Reading, Setting

LEMMA ReadFieldStep == ASSUME GInv, ReadField PROVE GInv'
<1>1. /\ pc \in {"month", "hour", "min", "sec"}
      /\ regs' = [f \in Fields |-> IF f \in Group(pc) THEN chip[f] ELSE regs[f]]
      /\ pc' = ReadsNext
      /\ pass' = IF pc' = "month" THEN 2 ELSE pass
      /\ UNCHANGED <<chip, yearAdd, uf, acc, intf, data, ticked, apart, updated>>
  BY DEF ReadField, cVars
<1>2. GTypes /\ InReading
  BY <1>1 DEF GInv, GFollow, Reading
<1>3. /\ regs' \in [Fields -> Nat]
      /\ \A f \in Fields : regs'[f] = IF f \in Group(pc) THEN chip[f] ELSE regs[f]
  BY <1>1, <1>2 DEF GTypes
<1>4. InRange(regs')
  BY <1>2, <1>3 DEF GTypes, InRange, Fields
<1>5. pc' \in {"day", "min", "sec", "run", "month"} /\ pass' \in 1..2
  BY <1>1, <1>2 DEF GTypes, ReadsNext
<1>6. GTypes'
  BY <1>1, <1>2, <1>3, <1>4, <1>5 DEF GTypes
<1>7. ASSUME SameSoFar PROVE \A f \in ReadBefore(pc) \cup Group(pc) : f \in Fields =>
                               regs'[f] = chip[f] \/ (f = "year" /\ apart)
  BY <1>3, <1>7 DEF SameSoFar
<1>8. CASE pc # "sec"
  <2>1. /\ ReadBefore(pc') \subseteq ReadBefore(pc) \cup Group(pc)
        /\ ReadBefore(pc') \subseteq Fields /\ pc' \in {"day", "min", "sec"}
    BY <1>1, <1>8 DEF ReadsNext, ReadBefore, Group, Fields
  <2>2. SameSoFar => SameSoFar'
    BY <1>1, <1>7, <2>1 DEF SameSoFar
  <2>3. InReading'
    BY <1>1, <1>2, <2>1, <2>2 DEF InReading
  <2> QED
    BY <1>6, <2>1, <2>3 DEF GInv, GFollow, Reading, Setting
<1>9. CASE pc = "sec" /\ Believe
  <2>1. pc' = "run"
    BY <1>1, <1>9 DEF ReadsNext
  <2>2. regs'.sec = chip.sec
    BY <1>3, <1>9 DEF Group, Fields
  <2>3. ASSUME ~apart PROVE regs' = chip
    <3>1. SameSoFar
      BY <1>2, <1>9, <2>2 DEF InReading, Believe, GTypes
    <3>2. \A f \in Fields : f \in ReadBefore(pc) \cup Group(pc)
      BY <1>9 DEF ReadBefore, Group, Fields
    <3>3. \A f \in Fields : regs'[f] = chip[f]
      BY <1>7, <2>3, <3>1, <3>2
    <3> QED
      BY <1>2, <1>3, <3>3 DEF GTypes
  <2>4. ~apart => Ahead'
    BY <1>1, <2>3 DEF Ahead
  <2> QED
    BY <1>1, <1>6, <2>1, <2>4 DEF GInv, GFollow, Reading, Setting
<1>10. CASE pc = "sec" /\ ~Believe
  <2>1. pc' = "month" /\ pass' = 2
    BY <1>1, <1>10 DEF ReadsNext
  <2>2. chip.sec = 0
    BY <1>3, <1>10 DEF Group, Fields, Believe
  <2>3. InReading'
    BY <1>1, <1>2, <2>1, <2>2 DEF InReading, SameSoFar, ReadBefore
  <2> QED
    BY <1>6, <2>1, <2>3 DEF GInv, GFollow, Reading, Setting
<1> QED
  BY <1>1, <1>8, <1>9, <1>10

LEMMA ReadDayStep == ASSUME GInv, ReadDay PROVE GInv'
<1>1. /\ pc = "day" /\ pc' = "hour"
      /\ regs' = [regs EXCEPT !.day = chip.day, !.year = YearFrom(chip.year % 4)]
      /\ yearAdd' = regs'.year
      /\ apart' = ~Recent
      /\ UNCHANGED <<chip, uf, acc, intf, pass, data, ticked, updated>>
  BY DEF ReadDay, cVars
<1>2. GTypes /\ InReading
  BY <1>1 DEF GInv, GFollow, Reading
<1>3. chip.year \in Nat /\ YearFrom(chip.year % 4) \in 0..Years-1
  BY <1>2, YearInRange DEF GTypes, Fields
<1>4. /\ regs' \in [Fields -> Nat]
      /\ regs'.day = chip.day /\ regs'.year = YearFrom(chip.year % 4)
      /\ \A f \in Fields \ {"day", "year"} : regs'[f] = regs[f]
  <2>1. PICK y \in 0..Years-1 : y = YearFrom(chip.year % 4)
    BY <1>3
  <2>2. regs' = [regs EXCEPT !.day = chip.day, !.year = y]
    BY <1>1, <2>1
  <2>3. y \in Nat /\ chip.day \in Nat /\ regs \in [Fields -> Nat] /\ {"day", "year"} \subseteq Fields
    BY <1>2, <2>1, Sizes DEF GTypes, Fields
  <2> QED
    BY <2>1, <2>2, <2>3
<1>5. InRange(regs')
  BY <1>2, <1>3, <1>4 DEF GTypes, InRange, Fields
<1>6. GTypes'
  <2>1. apart' \in BOOLEAN /\ yearAdd' \in 0..Years-1
    BY <1>1, <1>3, <1>4
  <2> QED
    BY <1>1, <1>2, <1>4, <1>5, <2>1 DEF GTypes
<1>7. ~apart' => regs'.year = chip'.year
  BY <1>1, <1>2, <1>4, YearComesBack DEF GTypes, InRange
<1>8. SameSoFar => SameSoFar'
  BY <1>1, <1>4, <1>7 DEF SameSoFar, ReadBefore, Fields
<1>9. InReading'
  BY <1>1, <1>2, <1>8 DEF InReading
<1> QED
  BY <1>1, <1>6, <1>9 DEF GInv, GFollow, Reading, Setting

\* The calls that only touch the update flag.
LEMMA FlagStep == ASSUME GInv, GetC \/ ClearFlag \/ SetC \/ ToggleBit PROVE GInv'
<1>1. /\ pc \in {"run", "told", "toggle"} /\ pc' \in {"run", "told", "toggle"}
      /\ uf' \in BOOLEAN /\ acc' \in BOOLEAN /\ updated' \in BOOLEAN
      /\ UNCHANGED <<chip, yearAdd, regs, intf, pass, data, ticked, apart>>
  <2>1. CASE GetC
    BY <2>1 DEF GetC, cVars, MainAt, GInv, GTypes
  <2>2. CASE ClearFlag
    BY <2>2 DEF ClearFlag, MainAt, GInv, GTypes
  <2>3. CASE SetC
    BY <2>3 DEF SetC, MainAt, GInv, GTypes
  <2>4. CASE ToggleBit
    BY <2>4 DEF ToggleBit, MainAt, GInv, GTypes
  <2> QED
    BY <2>1, <2>2, <2>3, <2>4
<1> QED
  BY <1>1 DEF GInv, GTypes, GFollow, Reading, Setting, Ahead

LEMMA SetsStep ==
  ASSUME GInv, NEW f \in Fields, NEW v \in First(f)..Last(f, regs) + 1, Sets(f, v)
  PROVE  GInv'
<1>1. /\ pc = "run" /\ ~intf
      /\ regs' = [regs EXCEPT ![f] = v]
      /\ data' = [field |-> f, value |-> v]
      /\ pc' \in {"yearAdd", "write"}
      /\ apart' = (apart \/ regs # chip)
      /\ f \notin Time => Date(regs')
      /\ UNCHANGED <<chip, yearAdd, uf, acc, intf, pass, ticked, updated>>
  BY DEF Sets, SetReg, MainAt, cVars, Time
<1>2. GTypes
  BY DEF GInv
<1>3. v \in Nat
  <2>1. First(f) \in Nat
    BY DEF First
  <2> QED
    BY <2>1
<1>4. regs' \in [Fields -> Nat] /\ data' \in [field : Fields, value : Nat]
  BY <1>1, <1>2, <1>3 DEF GTypes
<1>5. InRange(regs')
  <2>1. CASE f \notin Time
    <3>1. /\ regs'.wday \in 1..WDays /\ regs'.day # 0 /\ regs'.month \in 1..Months
          /\ regs'.year \in 0..Years-1
          /\ regs'.sec \in 0..Secs /\ regs'.min \in 0..Mins /\ regs'.hour \in 0..Hours
      BY <1>1, <1>4, <2>1, DatesInRange
    <3> QED
      BY <3>1 DEF InRange
  <2>2. CASE f \in Time
    <3>1. v <= IF f = "sec" THEN Secs ELSE IF f = "min" THEN Mins ELSE Hours
      BY <2>2, Sizes DEF Time, Last, First
    <3> QED
      BY <1>1, <1>2, <1>3, <2>2, <3>1, Sizes DEF GTypes, InRange, Time, Fields
  <2> QED
    BY <2>1, <2>2
<1>6. GTypes'
  <2>1. apart' \in BOOLEAN
    BY <1>1
  <2> QED
    BY <1>1, <1>2, <1>4, <1>5, <2>1 DEF GTypes
<1>7. ~apart' => InSetting'
  BY <1>1 DEF InSetting
<1> QED
  BY <1>1, <1>6, <1>7 DEF GInv, GFollow, Reading, Setting, Time

LEMMA YearAddStep == ASSUME GInv, WriteYearAdd PROVE GInv'
<1>1. /\ pc = "yearAdd" /\ pc' = "write" /\ yearAdd' = regs.year
      /\ UNCHANGED <<chip, regs, uf, acc, intf, pass, data, ticked, apart, updated>>
  BY DEF WriteYearAdd, MainAt, cVars
<1>2. GTypes'
  BY <1>1 DEF GInv, GTypes, InRange
<1> QED
  BY <1>1, <1>2 DEF GInv, GFollow, Reading, Setting, InSetting

LEMMA WriteStep == ASSUME GInv, WriteChip PROVE GInv'
<1> DEFINE f == data.field
           time == f \in Time
<1>1. /\ pc = "write" /\ pc' = "run" /\ ~intf
      /\ data' = NoData
      /\ UNCHANGED <<yearAdd, regs, uf, acc, intf, pass, ticked, updated>>
  BY DEF WriteChip, MainAt, cVars
<1>2. GTypes /\ f \in Fields /\ data.value \in Nat
  BY DEF GInv, GTypes
<1>3. data' \in [field : Fields, value : Nat]
  BY <1>1 DEF NoData, Fields
<1>4. CASE time /\ data.value > Last(f, chip)
  <2>1. chip' = chip /\ apart'
    BY <1>4 DEF WriteChip, Time
  <2>2. apart' \in BOOLEAN
    BY <1>4 DEF WriteChip, Time
  <2>3. GTypes'
    BY <1>1, <1>2, <1>3, <2>1, <2>2 DEF GTypes
  <2> QED
    BY <1>1, <2>1, <2>3 DEF GInv, GFollow, Reading, Setting
<1>5. CASE ~(time /\ data.value > Last(f, chip))
  <2>1. /\ chip' = [g \in Fields |->
                      IF g \notin Group(f) THEN chip[g] ELSE IF time THEN data.value ELSE regs[g]]
        /\ apart' = apart
    BY <1>5 DEF WriteChip, Time
  <2> HIDE DEF f
  <2>2. chip' \in [Fields -> Nat]
    BY <1>2, <2>1 DEF GTypes
  <2>3. CASE time
    <3>1. Group(f) = {f} /\ f \in {"sec", "min", "hour"}
      BY <2>3 DEF Group, Time
    <3>2. \A g \in Fields : chip'[g] = IF g = f THEN data.value ELSE chip[g]
      BY <2>1, <2>3, <3>1
    <3>3. Last(f, chip) \in Nat /\ data.value <= Last(f, chip)
      BY <1>2, <1>5, <2>3, <3>1, Sizes DEF Last
    <3>4. /\ InRange(chip') /\ chip'.sec < Secs /\ chip'.min < Mins /\ chip'.hour < Hours
      <4>1. /\ f = "sec" => data.value < Secs
            /\ f = "min" => data.value < Mins
            /\ f = "hour" => data.value < Hours
        BY <1>2, <3>3, Sizes DEF Last
      <4>2. /\ {"sec", "min", "hour", "wday", "day", "month", "year"} \subseteq Fields
            /\ chip'.wday = chip.wday /\ chip'.day = chip.day /\ chip'.month = chip.month
            /\ chip'.year = chip.year
        BY <3>1, <3>2 DEF Fields
      <4>3. /\ chip'.sec = IF "sec" = f THEN data.value ELSE chip.sec
            /\ chip'.min = IF "min" = f THEN data.value ELSE chip.min
            /\ chip'.hour = IF "hour" = f THEN data.value ELSE chip.hour
        BY <3>2, <4>2
      <4>4. chip'.sec < Secs /\ chip'.min < Mins /\ chip'.hour < Hours
        BY <1>2, <4>1, <4>3 DEF GTypes
      <4>5. chip'.sec \in Nat /\ chip'.min \in Nat /\ chip'.hour \in Nat
        BY <2>2, <4>2
      <4> QED
        BY <1>2, <4>2, <4>4, <4>5, Sizes DEF GTypes, InRange
    <3>5. ~apart => chip' = regs
      <4> SUFFICES ASSUME ~apart PROVE chip' = regs
        OBVIOUS
      <4>1. regs = [chip EXCEPT ![f] = data.value]
        BY <1>1 DEF GInv, GFollow, Setting, InSetting, f
      <4>2. \A g \in Fields : regs[g] = IF g = f THEN data.value ELSE chip[g]
        BY <1>2, <4>1 DEF GTypes
      <4> QED
        BY <1>2, <2>2, <3>2, <4>2, SameFields DEF GTypes
    <3> QED
      BY <1>1, <1>2, <1>3, <2>1, <2>2, <3>4, <3>5 DEF GInv, GTypes, GFollow, Reading, Setting, Ahead
  <2>4. CASE ~time
    <3>1. Group(f) \subseteq {"wday", "day", "month", "year"} /\ f \in Group(f)
      BY <1>2, <2>4 DEF Group, Time, Fields
    <3>2. \A g \in Fields : chip'[g] = IF g \in Group(f) THEN regs[g] ELSE chip[g]
      BY <2>1, <2>4
    <3>3. /\ InRange(chip') /\ chip'.sec < Secs /\ chip'.min < Mins /\ chip'.hour < Hours
      <4>1. /\ {"sec", "min", "hour", "wday", "day", "month", "year"} \subseteq Fields
            /\ chip'.sec = chip.sec /\ chip'.min = chip.min /\ chip'.hour = chip.hour
        BY <3>1, <3>2 DEF Fields
      <4>2. /\ chip'.wday \in {chip.wday, regs.wday} /\ chip'.day \in {chip.day, regs.day}
            /\ chip'.month \in {chip.month, regs.month} /\ chip'.year \in {chip.year, regs.year}
        BY <3>2, <4>1
      <4> QED
        BY <1>2, <4>1, <4>2 DEF GTypes, InRange
    <3>4. ~apart => chip' = regs
      <4> SUFFICES ASSUME ~apart PROVE chip' = regs
        OBVIOUS
      <4>1. regs = [chip EXCEPT ![f] = data.value]
        BY <1>1 DEF GInv, GFollow, Setting, InSetting, f
      <4>2. \A g \in Fields : g # f => regs[g] = chip[g]
        BY <1>2, <4>1 DEF GTypes
      <4>3. \A g \in Fields : regs[g] = chip'[g]
        BY <3>1, <3>2, <4>2
      <4> QED
        BY <1>2, <2>2, <4>3, SameFields DEF GTypes
    <3> QED
      BY <1>1, <1>2, <1>3, <2>1, <2>2, <3>3, <3>4 DEF GInv, GTypes, GFollow, Reading, Setting, Ahead
  <2> QED
    BY <2>3, <2>4
<1> QED
  BY <1>4, <1>5

LEMMA TickStep == ASSUME GInv, Tick PROVE GInv'
<1>1. /\ Reading => ~ticked
      /\ ~Reading => ~intf
      /\ chip' = Inc(chip)
      /\ intf' = (pc # "off") /\ ticked' = (pc # "off")
      /\ apart' = (apart \/ Setting)
      /\ UNCHANGED <<yearAdd, regs, uf, acc, pc, pass, data, updated>>
  BY DEF Tick, cVars
<1>2. GTypes
  BY DEF GInv
<1>3. /\ chip' \in [Fields -> Nat] /\ InRange(chip')
      /\ chip'.sec < Secs /\ chip'.min < Mins /\ chip'.hour < Hours
  BY <1>1, <1>2, IncRange DEF GTypes
<1>4. intf' \in BOOLEAN /\ ticked' \in BOOLEAN /\ apart' \in BOOLEAN
  BY <1>1
<1>5. GTypes'
  BY <1>1, <1>2, <1>3, <1>4 DEF GTypes
<1>6. CASE pc = "off"
  BY <1>1, <1>5, <1>6 DEF GInv, GFollow, Reading, Setting
<1>7. CASE Reading
  <2>1. InReading /\ pc # "off" /\ ~ticked /\ intf' /\ ticked' /\ Reading'
    BY <1>1, <1>7 DEF GInv, GFollow, Reading
  <2>2. "sec" \notin ReadBefore(pc) /\ ReadBefore(pc) \subseteq Fields
    BY DEF ReadBefore, Fields
  <2>3. apart' <=> apart
    BY <1>1, <1>7 DEF Reading, Setting
  <2>4. SameSoFar /\ (\A f \in Fields \ {"sec"} : chip'[f] = chip[f]) => SameSoFar'
    BY <1>1, <2>2, <2>3 DEF SameSoFar
  <2>5. pass = 1 => SameSoFar' \/ chip'.sec = 0
    BY <1>1, <1>2, <2>1, <2>4, IncSecond DEF InReading, GTypes
  <2>6. pass = 2 => SameSoFar'
    BY <1>1, <1>2, <2>1, <2>4, IncSecond DEF InReading, GTypes
  <2>7. InReading'
    BY <1>1, <2>1, <2>5, <2>6 DEF InReading
  <2> QED
    BY <1>1, <1>5, <1>7, <2>7 DEF GInv, GFollow, Reading, Setting
<1>8. CASE Setting
  <2>1. apart'
    BY <1>1, <1>8
  <2> QED
    BY <1>1, <1>5, <1>8, <2>1 DEF GInv, GFollow, Reading, Setting
<1>9. CASE pc \in {"run", "told", "toggle"}
  <2>1. ~intf /\ intf'
    BY <1>1, <1>9 DEF Reading
  <2>2. ~apart => Ahead
    BY <1>9 DEF GInv, GFollow
  <2>3. Ahead => Ahead'
    BY <1>1, <2>1 DEF Ahead
  <2>4. ~apart' => Ahead'
    BY <1>1, <2>2, <2>3
  <2> QED
    BY <1>1, <1>5, <1>9, <2>4 DEF GInv, GFollow, Reading, Setting
<1> QED
  BY <1>2, <1>6, <1>7, <1>8, <1>9 DEF GTypes, Reading, Setting

LEMMA Int7Step == ASSUME GInv, Int7 PROVE GInv'
<1>1. /\ pc # "off" /\ ~Reading /\ intf /\ ~intf' /\ intf' \in BOOLEAN
      /\ regs' = Inc(regs)
      /\ uf' \in BOOLEAN /\ updated' \in BOOLEAN
      /\ UNCHANGED <<chip, yearAdd, acc, pc, pass, data, ticked, apart>>
  BY DEF Int7
<1>2. GTypes
  BY DEF GInv
<1>3. regs' \in [Fields -> Nat] /\ InRange(regs')
  BY <1>1, <1>2, IncRange DEF GTypes
<1>4. GTypes'
  BY <1>1, <1>2, <1>3 DEF GTypes
<1>5. CASE Setting
  <2>1. apart
    BY <1>1, <1>5 DEF GInv, GFollow, InSetting
  <2>2. data.field \notin Time => Date(regs')
    BY <1>1, <1>5, IncDate DEF GInv, GFollow
  <2> QED
    BY <1>1, <1>4, <1>5, <2>1, <2>2 DEF GInv, GFollow, Reading, Setting
<1>6. CASE ~Setting
  <2>1. ~apart => Ahead'
    BY <1>1, <1>2, <1>6 DEF GInv, GFollow, Ahead, Setting, Reading, GTypes
  <2> QED
    BY <1>1, <1>4, <1>6, <2>1 DEF GInv, GFollow, Reading, Setting
<1> QED
  BY <1>5, <1>6

\* The first of everything is in range.
LEMMA BlankInRange ==
  /\ Blank \in [Fields -> Nat] /\ InRange(Blank)
  /\ Blank.sec < Secs /\ Blank.min < Mins /\ Blank.hour < Hours
<1>1. \A f \in Fields : First(f) \in Nat /\ Blank[f] = First(f)
  BY DEF First, Blank
<1>2. Blank \in [Fields -> Nat]
  BY <1>1 DEF Blank
<1>3. /\ Blank.sec = 0 /\ Blank.min = 0 /\ Blank.hour = 0 /\ Blank.wday = 1 /\ Blank.day = 1
      /\ Blank.month = 1 /\ Blank.year = 0
  BY <1>1 DEF Fields, First
<1> QED
  BY <1>2, <1>3, Sizes DEF InRange

LEMMA PowerOffStep == ASSUME GInv, PowerOff PROVE GInv'
<1>1. /\ pc' = "off" /\ regs' = Blank /\ data' = NoData /\ pass' = 1
      /\ intf' \in BOOLEAN /\ ticked' \in BOOLEAN
      /\ UNCHANGED <<chip, yearAdd, uf, acc, apart, updated>>
  BY DEF PowerOff, cVars
<1>2. data' \in [field : Fields, value : Nat]
  BY <1>1 DEF NoData, Fields
<1>3. GTypes'
  BY <1>1, <1>2, BlankInRange DEF GInv, GTypes
<1> QED
  BY <1>1, <1>3 DEF GInv, GFollow, Reading, Setting

\* Outside of start-up and of a setting, AVR and chip are in step unless something
\* has set them apart.
THEOREM ClockInvariant == Spec => []GInv
<1>1. Init => GInv
  <2> SUFFICES ASSUME Init PROVE GInv
    OBVIOUS
  <2>1. /\ chip = Blank /\ regs = Blank /\ data = NoData /\ pc = "off" /\ pass = 1
        /\ yearAdd \in 0..Years-1
        /\ uf \in BOOLEAN /\ acc \in BOOLEAN /\ intf \in BOOLEAN
        /\ ticked \in BOOLEAN /\ apart \in BOOLEAN /\ updated \in BOOLEAN
    BY DEF Init
  <2>2. data \in [field : Fields, value : Nat]
    BY <2>1 DEF NoData, Fields
  <2>3. GTypes
    BY <2>1, <2>2, BlankInRange DEF GTypes
  <2> QED
    BY <2>1, <2>3 DEF GInv, GFollow, Reading, Setting
<1>2. GInv /\ [Next]_vars => GInv'
  <2> SUFFICES ASSUME GInv, [Next]_vars PROVE GInv'
    OBVIOUS
  <2>1. CASE StartUp
    BY <2>1, StartStep, ReadFieldStep, ReadDayStep DEF StartUp
  <2>2. CASE Main
    BY <2>2, FlagStep, SetsStep, YearAddStep, WriteStep DEF Main
  <2>3. CASE Tick \/ Int7 \/ PowerOff
    BY <2>3, TickStep, Int7Step, PowerOffStep
  <2>4. CASE UNCHANGED vars
    BY <2>4 DEF vars, cVars, GInv, GTypes, GFollow, Reading, Setting, InReading, SameSoFar,
                InSetting, Ahead, InRange
  <2> QED
    BY <2>1, <2>2, <2>3, <2>4 DEF Next
<1> QED
  BY <1>1, <1>2, PTL DEF Spec

\* Every field keeps its range, also in a chip that has been set while a second
\* passed; a time out of range never reaches the chip.
THEOREM ClockTypes == Spec => []TypeOK
<1>1. GInv => TypeOK
  <2> SUFFICES ASSUME GTypes PROVE TypeOK
    BY DEF GInv
  <2>1. {uf, acc, intf, ticked, apart, updated} \subseteq BOOLEAN
    BY DEF GTypes
  <2>2. {chip, regs} \subseteq [Fields -> Nat]
    BY DEF GTypes
  <2> QED
    BY <2>1, <2>2 DEF GTypes, TypeOK
<1> QED
  BY <1>1, ClockInvariant, PTL

\* The AVR shows the date of the chip or is a second ahead, from start-up on.
THEOREM ShowsChip == Spec => []InStep
<1>1. GInv => InStep
  <2> SUFFICES ASSUME GInv, pc # "off", ~Reading, ~Setting, ~apart
               PROVE  (IF intf THEN Inc(regs) ELSE regs) \in {chip, Inc(chip)}
    BY DEF InStep
  <2>1. pc \in {"run", "told", "toggle"}
    BY DEF GInv, GTypes, Reading, Setting
  <2> QED
    BY <2>1 DEF GInv, GFollow, Ahead
<1> QED
  BY <1>1, ClockInvariant, PTL
=============================================================================
