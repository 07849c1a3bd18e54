------------------------------- MODULE Clocks -------------------------------
(***************************************************************************)
(* The real-time clocks, over Library/EfiTimeBaseLib: is a time valid, and *)
(* the conversion between a date and the days since 1970.                  *)
(*                                                                         *)
(* Chips/Hisilicon/Library/VirtualRealTimeClockLib (the definitions that   *)
(* begin with Virtual) is a clock without a chip.  The time is the counter *)
(* of the processor, which starts at a reset, and a difference in memory;  *)
(* the time zone and daylight saving are in variables, which survive the   *)
(* reset the difference does not.  Seconds since 1970 are a pair of a day  *)
(* and a second of that day.                                               *)
(*                                                                         *)
(* The DS3231 has registers with two decimal digits each, read and written *)
(* one at a time over I2C while the clock goes on.  Chips/Hisilicon/       *)
(* Library/DS3231RealTimeClockLib has the clock on a bus of its own;       *)
(* Platforms/Hisilicon/D03/Library/DS3231RealTimeClockLib (the definitions *)
(* that end in D03) has it on a bus shared with the board's management     *)
(* controller (BMC).  There each marks the bus as its own in a register of *)
(* the CPLD, which takes the mark of one only while the other's is not     *)
(* there.                                                                  *)
(***************************************************************************)
EXTENDS Integers, Sequences, FiniteSets

CONSTANTS
  Days,     \* the dates the virtual clock is set to
  Moments,  \* the seconds of the day it is set to
  Zones, Daylights,
  Walks,    \* [from, for]: days over which the calendar is followed
  VirtualBounds,   \* bounds: sets, ticks, resets, faults
  Starts,   \* what the DS3231 shows at first
  Sets,     \* times that its callers set, valid or not
  Shared,   \* whether its bus is shared with the board's BMC, as on D03
  Tries,    \* 20 attempts at the bus
  Bounds    \* bounds: calls, ticks, faults, turns of the BMC

VARIABLES
  drv,    \* the library: mEpochDiff; is the chip prepared, and the initialisation
  dev,    \* counter and variables; the chip's registers, and who marked the bus
  call,   \* the call in progress (the virtual clock's calls are atomic)
  hist    \* history: what was set and what was told

vars == <<drv, dev, call, hist>>

ConstantsOK ==
  /\ Zones \subseteq (-1440 .. 1440) \cup {2047}
  /\ Daylights \subseteq {0, 3} /\ Moments \subseteq 0 .. 86399
  /\ \A m \in VirtualBounds : {m.sets, m.ticks, m.resets, m.faults} \subseteq Nat
  /\ \A t \in Starts : t.Year \in 1900 .. 2099 /\ t.Month \in 1 .. 12
  /\ \A m \in Bounds : {m.calls, m.ticks, m.faults, m.turns} \subseteq Nat
  /\ Shared \in BOOLEAN /\ Tries \in Nat \ {0}

(* ----------------------------- EfiTimeBaseLib -------------------------- *)

EFI_UNSPECIFIED_TIMEZONE == 2047
SEC_PER_DAY == 86400
SEC_PER_HOUR == 3600
SEC_PER_MIN == 60

IsLeapYear(Year) == Year % 4 = 0 /\ (Year % 100 = 0 => Year % 400 = 0)

DayOfMonth == <<31, 29, 31, 30, 31, 30, 31, 31, 30, 31, 30, 31>>

IsDayValid(Time) ==
  /\ Time.Day \in 1 .. DayOfMonth[Time.Month]
  /\ Time.Month = 2 /\ Time.Day > 28 => IsLeapYear(Time.Year)

IsTimeValid(Time) ==
  /\ Time.Year \in 2000 .. 2099 /\ Time.Month \in 1 .. 12 /\ IsDayValid(Time)
  /\ Time.Hour \in 0 .. 23 /\ Time.Minute \in 0 .. 59 /\ Time.Second \in 0 .. 59
  /\ Time.TimeZone \in (-1440 .. 1440) \cup {EFI_UNSPECIFIED_TIMEZONE}

Date(Year, Month, Day) == [Year |-> Year, Month |-> Month, Day |-> Day]

\* EpochToEfiTime: the date of a day since 1970, by the Julian day.
DateOf(EpochDay) ==
  LET j == EpochDay + 2440588 + 32044
      g == j \div 146097
      dg == j % 146097
      c == (((dg \div 36524) + 1) * 3) \div 4
      dc == dg - (c * 36524)
      b == dc \div 1461
      db == dc % 1461
      a == (((db \div 365) + 1) * 3) \div 4
      da == db - (a * 365)
      y == (g * 400) + (c * 100) + (b * 4) + a
      m == (((da * 5) + 308) \div 153) - 2
      d == da - (((m + 4) * 153) \div 5) + 122
  IN Date(y - 4800 + ((m + 2) \div 12), ((m + 2) % 12) + 1, d + 1)

\* EfiTimeToEpoch: the day since 1970 of a date.
DayOf(Time) ==
  LET a == (14 - Time.Month) \div 12
      y == Time.Year + 4800 - a
      m == Time.Month + (12 * a) - 3
  IN Time.Day + (((153 * m) + 2) \div 5) + (365 * y) + (y \div 4) - (y \div 100)
       + (y \div 400) - 32045 - 2440588

Epoch(day, sec) == [day |-> day, sec |-> sec]

\* Seconds are carried into days; s is less than some days either way.
Plus(e, s) ==
  Epoch(e.day + ((e.sec + s) \div SEC_PER_DAY), (e.sec + s) % SEC_PER_DAY)

EpochToEfiTime(e) ==
  LET date == DateOf(e.day) IN
  [Year |-> date.Year, Month |-> date.Month, Day |-> date.Day,
   Hour |-> e.sec \div SEC_PER_HOUR, Minute |-> (e.sec \div SEC_PER_MIN) % 60,
   Second |-> e.sec % 60]

EfiTimeToEpoch(Time) ==
  Epoch(DayOf(Time), (Time.Hour * SEC_PER_HOUR) + (Time.Minute * SEC_PER_MIN) + Time.Second)

(* ----------------------- the calendar, by counting --------------------- *)

DaysIn(Year, Month) ==
  IF Month = 2 /\ ~IsLeapYear(Year) THEN 28 ELSE DayOfMonth[Month]

Tomorrow(d) ==
  IF d.Day < DaysIn(d.Year, d.Month) THEN Date(d.Year, d.Month, d.Day + 1)
  ELSE IF d.Month < 12 THEN Date(d.Year, d.Month + 1, 1) ELSE Date(d.Year + 1, 1, 1)

\* The second after a time.
NextSecond(t) ==
  LET next == Tomorrow(Date(t.Year, t.Month, t.Day)) IN
  CASE t.Second < 59 -> [t EXCEPT !.Second = @ + 1]
    [] t.Second = 59 /\ t.Minute < 59 -> [t EXCEPT !.Second = 0, !.Minute = @ + 1]
    [] t.Second = 59 /\ t.Minute = 59 /\ t.Hour < 23 ->
         [t EXCEPT !.Second = 0, !.Minute = 0, !.Hour = @ + 1]
    [] OTHER -> [t EXCEPT !.Second = 0, !.Minute = 0, !.Hour = 0,
                          !.Year = next.Year, !.Month = next.Month, !.Day = next.Day]

(* --------------------------- the virtual clock ------------------------- *)

NotFound == -9999
Nothing == [status |-> "none"]

\* A difference or sum of epochs, and an epoch in 32 bits.
Minus(a, b) == Plus(Epoch(a.day - b.day, a.sec), -b.sec)
Sum2(a, b) == Plus(Epoch(a.day + b.day, a.sec), b.sec)
Wrap(e) ==
  LET up == Plus(Epoch(e.day + 49710, e.sec), 23296)
      down == Plus(Epoch(e.day - 49710, e.sec), -23296)
  IN IF e.day < 0 THEN up ELSE IF down.day >= 0 THEN down ELSE e

InDaylight(Daylight) == Daylight = 3

\* The seconds that a zone and daylight saving shift a clock by.
ZoneSeconds(TimeZone) ==
  IF TimeZone = EFI_UNSPECIFIED_TIMEZONE THEN 0 ELSE TimeZone * SEC_PER_MIN
DaylightSeconds(Daylight) == IF InDaylight(Daylight) THEN SEC_PER_HOUR ELSE 0

\* LibGetTime: a variable that is not there is made; when that fails the
\* call does.
Told(status, time) == [status |-> status, time |-> time]
LocalTime(zone, daylight) ==
  LET now == Wrap(Sum2(drv.mEpochDiff, dev.count))
      zoned == Wrap(Plus(now, ZoneSeconds(zone)))
  IN Wrap(Plus(zoned, DaylightSeconds(daylight)))

VirtualGetTime ==
  \E saveZone, saveDaylight \in BOOLEAN :
    LET zone == IF dev.zone = NotFound THEN EFI_UNSPECIFIED_TIMEZONE ELSE dev.zone
        daylight == IF dev.daylight = NotFound THEN 0 ELSE dev.daylight
        zoneLost == dev.zone = NotFound /\ ~saveZone
        daylightLost == dev.daylight = NotFound /\ ~saveDaylight
    IN /\ ~(saveZone /\ saveDaylight) => hist.faults < hist.max.faults
       /\ ~saveZone => zoneLost
       /\ ~saveDaylight => daylightLost /\ ~zoneLost
       /\ dev' = [dev EXCEPT !.zone = IF zoneLost THEN @ ELSE zone,
                             !.daylight = IF zoneLost \/ daylightLost THEN @ ELSE daylight]
       /\ hist' = [hist EXCEPT
            !.told = IF zoneLost \/ daylightLost THEN Told("DEVICE_ERROR", 0)
                     ELSE Told("SUCCESS", EpochToEfiTime(LocalTime(zone, daylight))),
            !.faults = IF zoneLost \/ daylightLost THEN @ + 1 ELSE @]
       /\ UNCHANGED drv

\* LibSetTime: the difference changes before the variables are saved, so
\* that a call that fails has changed the time.
TimeAt(day, sec, zone, daylight) ==
  LET t == EpochToEfiTime(Epoch(day, sec)) IN
  [x \in DOMAIN t \cup {"TimeZone", "Daylight"} |->
     IF x = "TimeZone" THEN zone ELSE IF x = "Daylight" THEN daylight ELSE t[x]]

DiffFor(Time) ==
  Minus(Plus(Plus(EfiTimeToEpoch(Time), -ZoneSeconds(Time.TimeZone)),
             -DaylightSeconds(Time.Daylight)), dev.count)

Refused(Time) == ~IsTimeValid(Time) \/ Time.Year \notin 1970 .. 2105

VirtualSetTime ==
  \E day \in Days, sec \in Moments, zone \in Zones, daylight \in Daylights, saved \in 0 .. 2 :
    LET Time == TimeAt(day, sec, zone, daylight)
        ok == ~Refused(Time)
    IN /\ hist.sets < hist.max.sets
       /\ saved < 2 => ok /\ hist.faults < hist.max.faults
       /\ drv' = IF ok THEN [mEpochDiff |-> DiffFor(Time)] ELSE drv
       /\ dev' = [dev EXCEPT !.zone = IF ok /\ saved > 0 THEN zone ELSE @,
                             !.daylight = IF ok /\ saved = 2 THEN daylight ELSE @]
       /\ hist' = [hist EXCEPT !.sets = @ + 1,
            !.faults = IF saved < 2 THEN @ + 1 ELSE @,
            !.told = Nothing,
            !.truth = IF ~ok THEN @ ELSE IF saved = 2 THEN Time ELSE Nothing]

\* Time goes on: a second, or in a walk a day.
VirtualTick ==
  /\ hist.ticks < hist.max.ticks /\ hist.walk = Nothing
  /\ dev' = [dev EXCEPT !.count = Plus(@, 1)]
  /\ hist' = [hist EXCEPT !.ticks = @ + 1, !.told = Nothing,
       !.truth = IF @ = Nothing THEN @ ELSE NextSecond(@)]
  /\ UNCHANGED drv
Walk ==
  /\ hist.walk # Nothing /\ dev.count.day < hist.walk.from + hist.walk.for
  /\ dev' = [dev EXCEPT !.count.day = @ + 1]
  /\ hist' = [hist EXCEPT !.told = Nothing]
  /\ UNCHANGED drv

\* A reset: the counter and the memory start again, the variables stay.
VirtualInitialize ==
  /\ hist.resets < hist.max.resets
  /\ drv' = [mEpochDiff |-> Epoch(0, 0)] /\ dev' = [dev EXCEPT !.count = Epoch(0, 0)]
  /\ hist' = [hist EXCEPT !.resets = @ + 1, !.truth = Nothing, !.told = Nothing]

VirtualInit ==
  /\ drv = [mEpochDiff |-> Epoch(0, 0)]
  /\ \E max \in VirtualBounds, walk \in Walks \cup {Nothing} :
       /\ walk # Nothing => max.sets = 0 /\ max.resets = 0
       /\ hist = [max |-> max, walk |-> walk, sets |-> 0, ticks |-> 0, resets |-> 0,
                  faults |-> 0, truth |-> Nothing, told |-> Nothing]
       /\ dev = [count |-> Epoch(IF walk = Nothing THEN 0 ELSE walk.from, 0),
                 zone |-> NotFound, daylight |-> NotFound]

VirtualNext ==
  VirtualGetTime \/ VirtualSetTime \/ VirtualTick \/ Walk \/ VirtualInitialize

(* ------------------------------- the chip ------------------------------ *)

Bcd(n) == (16 * (n \div 10)) + (n % 10)
Value(byte) == (10 * (byte \div 16)) + (byte % 16)
Century == 128

Registers(t) ==
  [seconds |-> Bcd(t.Second), minutes |-> Bcd(t.Minute), hours |-> Bcd(t.Hour),
   date |-> Bcd(t.Day), month |-> Bcd(t.Month) + (IF t.Year >= 2000 THEN Century ELSE 0),
   year |-> Bcd(t.Year % 100)]

Shown(regs) ==
  [Year |-> (IF regs.month >= Century THEN 2000 ELSE 1900) + Value(regs.year),
   Month |-> Value(regs.month % Century), Day |-> Value(regs.date),
   Hour |-> Value(regs.hours), Minute |-> Value(regs.minutes),
   Second |-> Value(regs.seconds)]

\* The times a caller gives have a zone; the chip has none.
Clock(t) == [f \in {"Year", "Month", "Day", "Hour", "Minute", "Second"} |-> t[f]]

(* ------------------------- what is read and written -------------------- *)

\* The registers in the order in which the two routines access them.
ReadOrder == <<"month", "year", "date", "hours", "minutes", "seconds">>
WriteOrder == <<"seconds", "minutes", "hours", "date", "month", "year">>

Hour(byte) == (CASE byte \div 16 % 4 = 3 -> 0 [] byte \div 16 % 4 = 2 -> 20
                 [] byte \div 16 % 4 = 1 -> 10 [] OTHER -> 0) + (byte % 16)

\* LibGetTime: what a register contributes to the time.
Decode(register, byte, t) ==
  CASE register = "month" ->
         [t EXCEPT !.Month = (((byte \div 16) % 2) * 10) + (byte % 16),
                   !.Year = IF byte >= Century THEN 2000 ELSE 1900]
    [] register = "year" -> [t EXCEPT !.Year = @ + Value(byte)]
    [] register = "date" -> [t EXCEPT !.Day = (((byte \div 16) % 4) * 10) + (byte % 16)]
    [] register = "hours" -> [t EXCEPT !.Hour = Hour(byte)]
    [] register = "minutes" -> [t EXCEPT !.Minute = (((byte \div 16) % 8) * 10) + (byte % 16)]
    [] OTHER -> [t EXCEPT !.Second = Value(byte)]

\* LibSetTime: the digits of a register.
Encode(register, t) ==
  CASE register = "seconds" -> Bcd(t.Second)
    [] register = "minutes" -> Bcd(t.Minute)
    [] register = "hours" ->
         (16 * (IF t.Hour > 19 THEN 2 ELSE IF t.Hour > 9 THEN 1 ELSE 0)) + (t.Hour % 10)
    [] register = "date" -> Bcd(t.Day)
    [] register = "month" ->
         (16 * ((IF t.Year >= 2000 THEN 8 ELSE 0) + (IF t.Month > 9 THEN 1 ELSE 0)))
           + (t.Month % 10)
    [] OTHER -> Bcd(t.Year - (IF t.Year >= 2000 THEN 2000 ELSE 1900))

(* ------------------------------ a call --------------------------------- *)

NoCall == [op |-> "none", at |-> "none"]
NoTime == [Year |-> 0, Month |-> 0, Day |-> 0, Hour |-> 0, Minute |-> 0, Second |-> 0]

\* A call that begins at a step: what it reads is garbage at first.
Begin(op, at, t) ==
  [op |-> op, at |-> at, n |-> 1, time |-> t, temp |-> 0, failed |-> FALSE,
   carried |-> FALSE, tries |-> 0, status |-> "none", truth |-> NoTime]

Leave(status) == [call EXCEPT !.at = "leave", !.status = status]

Faulty == hist.faults < hist.max.faults
Fault == [hist EXCEPT !.faults = @ + 1]

\* What comes after the preparation of the chip.
Body == IF call.op = "get" THEN "read" ELSE "write"

\* InitializeDS3231: the control register, then the hours are read and
\* written back in 24-hour mode.  The clock goes on in between: hours read
\* before a full hour and written after it are an hour late.
InitializeControl(otherwise) ==
  /\ call.at = "init"
  /\ \/ call' = [call EXCEPT !.at = "hours", !.temp = dev.regs.hours] /\ UNCHANGED hist
     \/ Faulty /\ call' = Leave(otherwise) /\ hist' = Fault
  /\ UNCHANGED <<drv, dev>>
InitializeHours(otherwise) ==
  /\ call.at = "hours"
  /\ \/ /\ dev' = [dev EXCEPT !.regs.hours = call.temp]
        /\ drv' = [drv EXCEPT !.prepared = TRUE]
        /\ call' = [call EXCEPT !.at = Body]
        /\ hist' = [hist EXCEPT !.late = @ \/ call.temp # dev.regs.hours]
     \/ Faulty /\ call' = Leave(otherwise) /\ hist' = Fault /\ UNCHANGED <<drv, dev>>

\* One register: a read that fails leaves the byte of the one before.
ReadOne ==
  \E ok \in BOOLEAN :
    LET register == ReadOrder[call.n]
        byte == IF ok THEN dev.regs[register] ELSE call.temp
        wrong == register = "hours" /\ (byte \div 16) % 4 = 3
    IN /\ ok \/ Faulty
       /\ call' = IF wrong THEN [Leave("DEVICE_ERROR") EXCEPT !.temp = byte]
                  ELSE [call EXCEPT !.n = @ + 1, !.temp = byte, !.failed = @ \/ ~ok,
                                    !.truth = hist.truth, !.time = Decode(register, byte, @)]
       /\ hist' = IF ok THEN hist ELSE Fault
       /\ UNCHANGED <<drv, dev>>
AllRead == call.at = "read" /\ call.n > Len(ReadOrder)
Whole(t) == IsTimeValid([x \in DOMAIN t \cup {"TimeZone"} |->
                           IF x = "TimeZone" THEN EFI_UNSPECIFIED_TIMEZONE ELSE t[x]])

\* One register is written; one that fails may be written all the same.
WriteOne ==
  LET register == WriteOrder[call.n]
      written == [dev EXCEPT !.regs[register] = Encode(register, call.time)]
      last == call.n = Len(WriteOrder)
  IN /\ \/ /\ dev' = written
           /\ call' = IF last THEN Leave("SUCCESS") ELSE [call EXCEPT !.n = @ + 1]
           /\ hist' = IF last THEN [hist EXCEPT !.truth = Clock(call.time), !.late = FALSE,
                                                !.mixed = FALSE]
                      ELSE [hist EXCEPT !.mixed = TRUE]
        \/ /\ Faulty /\ dev' \in {dev, written} /\ call' = Leave("TIMEOUT")
           /\ hist' = [Fault EXCEPT !.mixed = @ \/ dev' # dev]
     /\ UNCHANGED drv

\* A call returns.
Return ==
  /\ call' = NoCall
  /\ hist' = [hist EXCEPT !.told =
       [op |-> call.op, status |-> call.status, time |-> call.time,
        truth |-> call.truth,
        excused |-> call.carried \/ hist.late \/ hist.mixed]]

\* A second goes by.  The first write of LibSetTime starts the second
\* again, and the others follow within it.
Tick ==
  /\ hist.ticks < hist.max.ticks
  /\ ~(call.at = "write" /\ call.n > 1)
  /\ dev' = [dev EXCEPT !.regs = Registers(NextSecond(Shown(@)))]
  /\ call' = IF call.op = "get" /\ call.at = "read" /\ call.n \in 2 .. Len(ReadOrder)
               THEN [call EXCEPT !.carried = @ \/ Shown(dev.regs).Second = 59] ELSE call
  /\ hist' = [hist EXCEPT !.ticks = @ + 1, !.truth = NextSecond(@)]
  /\ UNCHANGED drv

(* ------------------------------ a bus of its own ----------------------- *)

AfterStart == IF drv.prepared THEN "body" ELSE "init"
Started(op, t) ==
  LET c == Begin(op, AfterStart, t) IN
  IF c.at = "init" THEN c ELSE [c EXCEPT !.at = IF op = "get" THEN "read" ELSE "write"]

LibGetTime ==
  /\ call = NoCall /\ ~drv.booting /\ hist.calls < hist.max.calls
  /\ call' = Started("get", NoTime) /\ hist' = [hist EXCEPT !.calls = @ + 1]
  /\ UNCHANGED <<drv, dev>>

LibSetTime ==
  \E t \in Sets :
    /\ call = NoCall /\ ~drv.booting /\ hist.calls < hist.max.calls
    /\ hist' = [hist EXCEPT !.calls = @ + 1] /\ UNCHANGED <<drv, dev>>
    /\ call' = IF IsTimeValid(t) THEN Started("set", Clock(t))
               ELSE [Begin("set", "leave", NoTime) EXCEPT !.status = "INVALID_PARAMETER"]

InitializeDS3231 ==
  LET otherwise == IF call.op = "get" THEN "NOT_READY" ELSE "TIMEOUT" IN
  InitializeControl(otherwise) \/ InitializeHours(otherwise)

ReadTime ==
  \/ call.at = "read" /\ call.n <= Len(ReadOrder) /\ ReadOne
  \/ /\ AllRead /\ UNCHANGED <<drv, dev, hist>>
     /\ call' = Leave(IF call.failed \/ ~Whole(call.time) THEN "DEVICE_ERROR" ELSE "SUCCESS")

WriteTime == call.at = "write" /\ WriteOne

Answer == call.at = "leave" /\ ~drv.booting /\ Return /\ UNCHANGED <<drv, dev>>

\* LibRtcInitialize: a clock that cannot be read or shows a year that is
\* not of this century is set to its first second.
LibRtcInitialize ==
  /\ drv.booting /\ call.at = "leave"
  /\ IF call.op = "get" /\ (call.status # "SUCCESS" \/ call.time.Year \notin 2000 .. 2099)
       THEN /\ call' = Started("set", [NoTime EXCEPT !.Year = 2000, !.Month = 1, !.Day = 1])
            /\ UNCHANGED <<drv, hist>>
       ELSE Return /\ drv' = [drv EXCEPT !.booting = FALSE]
  /\ UNCHANGED dev

(* ---------------------------- the bus shared --------------------------- *)

\* SwitchRtcI2cChannelAndLock: look, mark and look again; the BMC may mark
\* the bus after the first look.  Without the bus the call is over.
Again(c) ==
  IF c.tries + 1 = Tries THEN [c EXCEPT !.at = "leave", !.status = "NOT_READY"]
  ELSE [c EXCEPT !.at = "lock", !.tries = @ + 1]

Look ==
  /\ call.at = "lock" /\ UNCHANGED <<drv, dev, hist>>
  /\ call' = IF dev.bmc THEN Again(call) ELSE [call EXCEPT !.at = "mark"]
Mark ==
  /\ call.at = "mark" /\ UNCHANGED <<drv, hist>>
  /\ dev' = [dev EXCEPT !.cpu = ~dev.bmc]
  /\ call' = [call EXCEPT !.at = "check"]
Check ==
  /\ call.at = "check" /\ UNCHANGED <<drv, dev, hist>>
  /\ call' = IF dev.cpu
               THEN [call EXCEPT !.at = IF ~drv.prepared THEN "init"
                                        ELSE IF call.op = "get" THEN "read" ELSE "write"]
             ELSE Again(call)
SwitchRtcI2cChannelAndLock == Look \/ Mark \/ Check

LibGetTimeD03 ==
  /\ call = NoCall /\ ~drv.booting /\ hist.calls < hist.max.calls
  /\ call' = Begin("get", "lock", NoTime) /\ hist' = [hist EXCEPT !.calls = @ + 1]
  /\ UNCHANGED <<drv, dev>>

LibSetTimeD03 ==
  \E t \in Sets :
    /\ call = NoCall /\ ~drv.booting /\ hist.calls < hist.max.calls
    /\ hist' = [hist EXCEPT !.calls = @ + 1] /\ UNCHANGED <<drv, dev>>
    /\ call' = IF IsTimeValid(t) THEN Begin("set", "lock", Clock(t))
               ELSE [Begin("set", "leave", NoTime) EXCEPT !.status = "INVALID_PARAMETER"]

InitializeDS3231D03 ==
  LET otherwise == IF call.op = "get" THEN "NOT_READY" ELSE "TIMEOUT" IN
  InitializeControl(otherwise) \/ InitializeHours(otherwise)

ReadTimeD03 ==
  \/ call.at = "read" /\ call.n <= Len(ReadOrder) /\ ReadOne
  \/ /\ AllRead /\ UNCHANGED <<drv, dev, hist>>
     /\ call' = Leave(IF call.failed \/ ~Whole(call.time) THEN "UNSUPPORTED" ELSE "SUCCESS")

WriteTimeD03 == call.at = "write" /\ WriteOne

\* The labels GExit and EXIT: the mark is taken back, also from a refused call.
Unmarked == [dev EXCEPT !.cpu = FALSE]
AnswerD03 ==
  /\ call.at = "leave" /\ ~drv.booting /\ Return
  /\ dev' = Unmarked /\ UNCHANGED drv

\* LibRtcInitializeD03: the status of the first call is not looked at.
\* When it ended before the year was read the year is whatever memory
\* held, and so may be the zone that goes with it.
YearRead == call.status \notin {"NOT_READY"}
LibRtcInitializeD03 ==
  /\ drv.booting /\ call.at = "leave" /\ dev' = Unmarked
  /\ \E stale, valid \in BOOLEAN :
       LET wrong == IF YearRead THEN call.time.Year \notin 2015 .. 2099 ELSE stale
           set == call.op = "get" /\ wrong
       IN IF set /\ (YearRead \/ valid)
            THEN /\ call' = Begin("set", "lock",
                              [NoTime EXCEPT !.Year = 2015, !.Month = 1, !.Day = 1])
                 /\ UNCHANGED <<drv, hist>>
            ELSE Return /\ drv' = [drv EXCEPT !.booting = FALSE]

(* -------------------------------- the BMC ------------------------------ *)

BmcTakes == ~dev.bmc /\ ~dev.cpu /\ hist.turns < hist.max.turns
  /\ dev' = [dev EXCEPT !.bmc = TRUE] /\ hist' = [hist EXCEPT !.turns = @ + 1]
  /\ UNCHANGED <<drv, call>>
BmcLeaves == dev.bmc /\ dev' = [dev EXCEPT !.bmc = FALSE] /\ UNCHANGED <<drv, call, hist>>
Bmc == BmcTakes \/ BmcLeaves

Init ==
  \E t \in Starts, max \in Bounds :
    /\ drv = [prepared |-> FALSE, booting |-> TRUE]
    /\ dev = [regs |-> Registers(t), cpu |-> FALSE, bmc |-> FALSE]
    /\ call = Begin("get", IF Shared THEN "lock" ELSE "init", NoTime)
    /\ hist = [max |-> max, calls |-> 0, ticks |-> 0, faults |-> 0, turns |-> 0, truth |-> t,
               late |-> FALSE, mixed |-> FALSE, told |-> NoCall]

Work ==
  \/ /\ ~Shared
     /\ InitializeDS3231 \/ ReadTime \/ WriteTime \/ Answer \/ LibRtcInitialize
  \/ /\ Shared
     /\ \/ SwitchRtcI2cChannelAndLock \/ InitializeDS3231D03 \/ ReadTimeD03 \/ WriteTimeD03
        \/ AnswerD03 \/ LibRtcInitializeD03
Next ==
  \/ Work \/ Tick
  \/ ~Shared /\ (LibGetTime \/ LibSetTime)
  \/ Shared /\ (LibGetTimeD03 \/ LibSetTimeD03 \/ Bmc)

Spec == Init /\ [][Next]_vars /\ WF_vars(Work)

(* ------------------------------ properties ----------------------------- *)

\* A time that was set with success is told again, in its zone and with
\* its daylight saving, as many seconds later as have gone by, until a
\* reset or a call that failed half-way.
ToldIsSet ==
  hist.told.status = "SUCCESS" /\ hist.truth # Nothing =>
    /\ \A f \in DOMAIN hist.told.time : hist.told.time[f] = hist.truth[f]
    /\ dev.zone = hist.truth.TimeZone /\ dev.daylight = hist.truth.Daylight

\* The conversions follow the calendar: the date of the next day is the
\* day after, and converting back gives the day again.
CalendarFollowed ==
  LET day == dev.count.day IN
  hist.walk # Nothing =>
    /\ DateOf(day + 1) = Tomorrow(DateOf(day))
    /\ DayOf(DateOf(day)) = day

Excused == hist.late \/ hist.mixed

\* A time told with success is the true one, unless a minute became full
\* between two of its reads; the chip shows the true time.  Excused is a
\* chip whose hours were written back late and one that was set half-way.
TellsTheTime ==
  /\ hist.told.op = "get" /\ hist.told.status = "SUCCESS" =>
       hist.told.excused \/ hist.told.time = hist.told.truth
  /\ Excused \/ Shown(dev.regs) = hist.truth

Busy == call # NoCall

\* Once the library is initialised without a fault, and with the bus when
\* it was wanted, the clock shows this century: what it tells is not
\* refused.
InThisCentury ==
  ~drv.booting /\ hist.faults = 0 /\ hist.turns = 0 => Shown(dev.regs).Year \in 2000 .. 2099

\* A shared bus is used only while it is the processor's, and it is not
\* kept: between calls the BMC can have it.
BusIsOurs ==
  Shared =>
    /\ call.at \in {"init", "hours", "read", "write"} => dev.cpu /\ ~dev.bmc
    /\ ~Busy => ~dev.cpu

=============================================================================
