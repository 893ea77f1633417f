----------------------------- MODULE GlukClock -----------------------------
(***************************************************************************)
(* The clock the AVR shows to the Z80 (rtc.c): registers that INT7 counts   *)
(* on by itself once a second (gluk_inc), read at start-up from a PCF8583   *)
(* chip which runs on a battery but keeps only two bits of the year, and    *)
(* written through to it when the Z80 sets one.                             *)
(*                                                                         *)
(* A step is one transaction with the chip, or one access to a register     *)
(* that INT7 also writes.  INT7 comes between any two steps of the main     *)
(* loop, but not in start-up, where interrupts are off: there a second is   *)
(* remembered in INTF7.  Alarms, BCD and the EEPROM are left out.           *)
(***************************************************************************)
EXTENDS Naturals

CONSTANTS
  Secs, Mins, Hours,  \* 60, 60, 24
  WDays,              \* 7
  Months,             \* 12
  Days,               \* days of each month of a common year
  February, Feb,      \* 2, 28: the month that has a leap day, and its length
  Years               \* 100

ASSUME GlukAssumption ==
  /\ Secs \in Nat \ {0, 1} /\ Mins \in Nat \ {0} /\ Hours \in Nat \ {0}
  /\ WDays \in Nat \ {0} /\ Months \in Nat \ {0}
  /\ Days \in [1..Months -> Nat \ {0}]
  /\ \A m \in 1..Months : Days[m] = Feb <=> m = February
  /\ Years \in Nat \ {0} /\ Years % 4 = 0

VARIABLES
  \* the chip, which power-off does not reach
  chip,       \* date and time; of the year it keeps the lower two bits only
  yearAdd,    \* RTC_YEAR_ADD_REG
  \* the AVR
  regs,       \* gluk_regs[0..9]
  uf,         \* the update flag in gluk_regs[C]
  intf,       \* INTF7
  pc,         \* "off", the read of start-up that comes next, "run", or the
              \* rest of a call: "told", "toggle", "yearAdd", "write"
  pass,       \* the first or the second gluk_init
  acc,        \* the update flag as a read-modify-write has loaded it
  data,       \* the arguments of gluk_set_reg
  \* history
  ticked,     \* a second has passed since start-up began
  apart,      \* why AVR and chip need not agree: see ReadDay, SetReg, Tick
  updated     \* a second was counted that no read of register C has told

cVars == <<uf, acc>>
vars == <<chip, yearAdd, regs, cVars, intf, pc, pass, data, ticked, apart, updated>>

-----------------------------------------------------------------------------
(* Counting *)

Fields == {"sec", "min", "hour", "wday", "day", "month", "year"}
First(f) == IF f \in {"wday", "day", "month"} THEN 1 ELSE 0

\* Mutant: no leap years.
CommonYears(c) == Days[c.month]

\* days_of_months
DaysOfMonth(c) ==
  IF Days[c.month] = Feb /\ c.year % 4 = 0 THEN Feb + 1 ELSE Days[c.month]

Last(f, c) ==
  CASE f = "sec"   -> Secs - 1
    [] f = "min"   -> Mins - 1
    [] f = "hour"  -> Hours - 1
    [] f = "wday"  -> WDays
    [] f = "day"   -> DaysOfMonth(c)
    [] f = "month" -> Months
    [] f = "year"  -> Years - 1

\* The counters a carry goes through before it reaches f.
Below(f) ==
  CASE f = "sec"   -> {}
    [] f = "min"   -> {"sec"}
    [] f = "hour"  -> {"sec", "min"}
    [] f = "wday"  -> {"sec", "min", "hour"}
    [] f = "day"   -> {"sec", "min", "hour"}
    [] f = "month" -> {"sec", "min", "hour", "day"}
    [] f = "year"  -> {"sec", "min", "hour", "day", "month"}

Carries(f, c) == \A g \in Below(f) : c[g] >= Last(g, c)

\* The date after c (gluk_inc).
Inc(c) ==
  [f \in Fields |->
     IF ~Carries(f, c) THEN c[f]
     ELSE IF c[f] >= Last(f, c) THEN First(f) ELSE c[f] + 1]

\* The dates there are, by the calendar and not by the code.
MonthLength(m, y) == IF m = February /\ y % 4 = 0 THEN Feb + 1 ELSE Days[m]

Date(c) ==
  /\ c.month \in 1..Months /\ c.year \in 0..Years-1
  /\ c.day \in 1..MonthLength(c.month, c.year) /\ c.wday \in 1..WDays
  /\ c.hour \in 0..Hours-1 /\ c.min \in 0..Mins-1 /\ c.sec \in 0..Secs-1

-----------------------------------------------------------------------------
(* Start-up: rtc_init and gluk_init, interrupts off *)

\* The chip keeps two fields in each of its registers 5 and 6.
Group(f) ==
  CASE f \in {"wday", "month"} -> {"wday", "month"}
    [] f \in {"day", "year"}   -> {"day", "year"}
    [] OTHER                   -> {f}

\* EIFR is cleared just before; register C and the modes have their defaults.
Start ==
  /\ pc = "off"
  /\ pc' = "month" /\ pass' = 1
  /\ uf' = FALSE /\ acc' = FALSE
  /\ intf' = FALSE /\ ticked' = FALSE /\ apart' = FALSE /\ updated' = FALSE
  /\ UNCHANGED <<chip, yearAdd, regs, data>>

\* Mutant: the first reading is always believed.
BelieveFirst == TRUE

\* A second of zero may be one that began while the fields before were read.
Believe == regs'.sec # 0 \/ pass = 2

ReadsNext ==
  CASE pc = "month" -> "day"
    [] pc = "hour"  -> "min"
    [] pc = "min"   -> "sec"
    [] pc = "sec"   -> IF Believe THEN "run" ELSE "month"

ReadField ==
  /\ pc \in {"month", "hour", "min", "sec"}
  /\ regs' = [f \in Fields |-> IF f \in Group(pc) THEN chip[f] ELSE regs[f]]
  /\ pc' = ReadsNext
  /\ pass' = IF pc' = "month" THEN 2 ELSE pass
  /\ UNCHANGED <<chip, yearAdd, cVars, intf, data, ticked, apart, updated>>

\* Mutant: the century does not end.
YearWithoutEnd(bits) ==
  LET base == IF yearAdd % 4 <= bits THEN yearAdd ELSE yearAdd + 4
  IN  bits + (base - (base % 4))

\* The year of the century from the chip's two bits and the year saved last.
YearFrom(bits) ==
  LET base == IF yearAdd % 4 <= bits THEN yearAdd
              ELSE IF yearAdd + 4 >= Years THEN 0 ELSE yearAdd + 4
  IN  bits + (base - (base % 4))

\* The year saved last is less than four years old.
Recent == (chip.year + Years - yearAdd) % Years < 4

ReadDay ==
  /\ pc = "day"
  /\ regs' = [regs EXCEPT !.day = chip.day, !.year = YearFrom(chip.year % 4)]
  /\ yearAdd' = regs'.year
  /\ apart' = ~Recent
  /\ pc' = "hour"
  /\ UNCHANGED <<chip, cVars, intf, pass, data, ticked, updated>>

StartUp == Start \/ ReadField \/ ReadDay

-----------------------------------------------------------------------------
(* The main loop.  An enabled interrupt comes before its next step. *)

MainAt(p) == pc = p /\ ~intf

\* gluk_get_reg for register C: the value, then the flag cleared.
GetC ==
  /\ MainAt("run")
  /\ updated' = FALSE
  /\ pc' = "told"
  /\ UNCHANGED <<chip, yearAdd, regs, cVars, intf, pass, data, ticked, apart>>

ClearFlag ==
  /\ MainAt("told")
  /\ uf' = FALSE
  /\ pc' = "run"
  /\ UNCHANGED <<chip, yearAdd, regs, acc, intf, pass, data, ticked, apart, updated>>

\* gluk_set_reg for register C with another CAPS LED or EEPROM bit.
SetC ==
  /\ MainAt("run")
  /\ acc' = uf
  /\ pc' = "toggle"
  /\ UNCHANGED <<chip, yearAdd, regs, uf, intf, pass, data, ticked, apart, updated>>

ToggleBit ==
  /\ MainAt("toggle")
  /\ uf' = acc /\ acc' = FALSE
  /\ pc' = "run"
  /\ UNCHANGED <<chip, yearAdd, regs, intf, pass, data, ticked, apart, updated>>

NoData == [field |-> "sec", value |-> 0]

\* gluk_set_reg for a field: first the AVR, then the chip.  What is set on an
\* AVR that is a second ahead of the chip leaves them apart.
SetReg(f, v) ==
  /\ MainAt("run")
  /\ regs' = [regs EXCEPT ![f] = v]
  /\ data' = [field |-> f, value |-> v]
  /\ pc' = IF f = "year" THEN "yearAdd" ELSE "write"
  /\ apart' = (apart \/ regs # chip)
  /\ UNCHANGED <<chip, yearAdd, cVars, intf, pass, ticked, updated>>

WriteYearAdd ==
  /\ MainAt("yearAdd")
  /\ yearAdd' = regs.year
  /\ pc' = "write"
  /\ UNCHANGED <<chip, regs, cVars, intf, pass, data, ticked, apart, updated>>

\* Seconds, minutes and hours out of range do not reach the chip.
WriteChip ==
  /\ MainAt("write")
  /\ LET f == data.field
         time == f \in {"sec", "min", "hour"}
     IN  IF time /\ data.value > Last(f, chip)
         THEN chip' = chip /\ apart' = TRUE
         ELSE /\ chip' = [g \in Fields |->
                            IF g \notin Group(f) THEN chip[g]
                            ELSE IF time THEN data.value ELSE regs[g]]
              /\ UNCHANGED apart
  /\ pc' = "run" /\ data' = NoData
  /\ UNCHANGED <<yearAdd, regs, cVars, intf, pass, ticked, updated>>

\* A Z80 that sets fields one by one to dates of the calendar, and perhaps a
\* time that is out of range by one.
Sets(f, v) ==
  /\ SetReg(f, v)
  /\ f \notin {"sec", "min", "hour"} => Date(chip) /\ Date([chip EXCEPT ![f] = v]) /\ Date(regs')

Main ==
  \/ GetC \/ ClearFlag \/ SetC \/ ToggleBit
  \/ \E f \in Fields : \E v \in First(f)..Last(f, regs) + 1 : Sets(f, v)
  \/ WriteYearAdd \/ WriteChip

-----------------------------------------------------------------------------
(* Seconds, and power *)

Reading == pc \in {"month", "day", "hour", "min", "sec"}
Setting == pc \in {"yearAdd", "write"}

\* A start-up reads the chip within a second, an interrupt is served within one.
Tick ==
  /\ Reading => ~ticked
  /\ ~Reading => ~intf
  /\ chip' = Inc(chip)
  /\ intf' = (pc # "off") /\ ticked' = (pc # "off")
  /\ apart' = (apart \/ Setting)
  /\ UNCHANGED <<yearAdd, regs, cVars, pc, pass, data, updated>>

\* INT7: gluk_inc.
Int7 ==
  /\ pc # "off" /\ ~Reading /\ intf
  /\ regs' = Inc(regs)
  /\ uf' = TRUE /\ updated' = TRUE
  /\ intf' = FALSE
  /\ UNCHANGED <<chip, yearAdd, acc, pc, pass, data, ticked, apart>>

Blank == [f \in Fields |-> First(f)]

\* The registers are lost; what they hold until they are read does not matter.
PowerOff ==
  /\ pc' = "off"
  /\ regs' = Blank /\ data' = NoData
  /\ intf' = FALSE /\ pass' = 1 /\ ticked' = FALSE
  /\ UNCHANGED <<chip, yearAdd, cVars, apart, updated>>

Init ==
  /\ chip = Blank /\ yearAdd \in 0..Years-1
  /\ pc = "off" /\ pass = 1 /\ regs = Blank
  /\ data = NoData
  /\ uf = FALSE /\ acc = FALSE
  /\ intf = FALSE /\ ticked = FALSE /\ apart = FALSE /\ updated = FALSE

Next == StartUp \/ Main \/ Tick \/ Int7 \/ PowerOff

Spec == Init /\ [][Next]_vars

-----------------------------------------------------------------------------
(* Properties *)

\* The time may be out of range by one, as the Z80 has set it, and the day may be
\* one the month does not have, if AVR and chip were apart when it was set.
InRange(c) ==
  /\ c.sec \in 0..Secs /\ c.min \in 0..Mins /\ c.hour \in 0..Hours
  /\ c.wday \in 1..WDays /\ c.day # 0 /\ c.month \in 1..Months /\ c.year \in 0..Years-1

\* The range of every variable; no time out of range reaches the chip.
TypeOK ==
  /\ {chip, regs} \subseteq [Fields -> Nat] /\ InRange(chip) /\ InRange(regs)
  /\ chip.sec < Secs /\ chip.min < Mins /\ chip.hour < Hours
  /\ yearAdd \in 0..Years-1
  /\ {uf, acc, intf, ticked, apart, updated} \subseteq BOOLEAN
  /\ pc \in {"off", "month", "day", "hour", "min", "sec", "run", "told", "toggle",
             "yearAdd", "write"}
  /\ pass \in 1..2
  /\ data \in [field : Fields, value : Nat]

\* From start-up on the AVR shows the date of the chip, or is one second ahead
\* of it (a second that begins in start-up, before the seconds are read, is
\* counted again when interrupts are enabled): no field read before a carry is
\* combined with one read behind it, the year comes back from two bits, and
\* the two count alike.
InStep ==
  pc \notin {"off"} /\ ~Reading /\ ~Setting /\ ~apart =>
    (IF intf THEN Inc(regs) ELSE regs) \in {chip, Inc(chip)}

\* c comes before d.
Before(c, d) ==
  \E f \in Fields \ {"wday"} :
    /\ c[f] < d[f]
    /\ \A g \in Fields \ {"wday"} : f \in Below(g) => c[g] = d[g]

Calendar ==
  {c \in [sec : 0..Secs-1, min : 0..Mins-1, hour : 0..Hours-1, wday : {1},
          day : 1..Feb+3, month : 1..Months, year : 0..Years-1] : Date(c)}

\* INT7 takes a date of the calendar to the next one: none is skipped, none
\* comes up that does not exist; behind the last one the century starts again.
NextDate ==
  [][Int7 /\ Date(regs) =>
       /\ Date(regs')
       /\ \A d \in Calendar : Before(regs, d) => ~Before(d, regs')]_vars

\* rtc.h 80: "Bit is set after each update cycle, UF is cleared by reading
\* Register C or a RESET".
UpdateTold == pc = "run" /\ updated => uf
=============================================================================
