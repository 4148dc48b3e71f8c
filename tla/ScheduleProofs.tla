---------------------------- MODULE ScheduleProofs ----------------------------
(***************************************************************************)
(* Proofs about the day plan, for every plan the settings can hold: every  *)
(* minute, every product of percentages, and every step of the clock up to *)
(* the length of the shortest ramp, where the step matters.                *)
(***************************************************************************)
EXTENDS ScheduleEngine, TLAPS

Whole == 100     \* percent
Dim   == 3000    \* the brightest night light
ShortRamp == 40  \* minutes: the bounds of a ramp
LongRamp  == 90

-----------------------------------------------------------------------------
(* Arithmetic *)

LEMMA ProductMonotone ==
    ASSUME NEW a \in Nat, NEW b \in Int, NEW c \in Int, b <= c
    PROVE  a * b \in Int /\ a * c \in Int /\ a * b <= a * c
OBVIOUS

LEMMA QuotientMonotone ==
    ASSUME NEW a \in Int, NEW b \in Int, NEW d \in Nat \ {0}, a <= b
    PROVE  a \div d <= b \div d
OBVIOUS

LEMMA QuotientType ==
    ASSUME NEW a \in Int, NEW d \in Nat \ {0}
    PROVE  a \div d \in Int
OBVIOUS

LEMMA QuotientBound ==
    ASSUME NEW a \in Int, NEW d \in Nat \ {0}, NEW q \in Int
    PROVE  /\ a <= q * d => a \div d <= q
           /\ 0 <= a => 0 <= a \div d
OBVIOUS

\* A ramp stays between darkness and the day's brightness.
LEMMA RampBound ==
    ASSUME NEW mult \in Nat, NEW from \in Nat, from <= Whole, NEW to \in Nat, to <= Whole,
           NEW d \in Nat \ {0}, NEW n \in Nat, n <= d
    PROVE  Ramp(mult, from, to, n, d) \in Nat /\ Ramp(mult, from, to, n, d) <= mult
<1> DEFINE x == from * d + (to - from) * n
<1>1. from * d \in Int /\ (to - from) * n \in Int /\ x = from * (d - n) + to * n
  OBVIOUS
<1>2. 0 <= from * (d - n) /\ from * (d - n) <= 100 * (d - n)
  BY DEF Whole
<1>3. 0 <= to * n /\ to * n <= 100 * n
  BY DEF Whole
<1>4. x \in Int /\ 0 <= x /\ x <= 100 * d
  BY <1>1, <1>2, <1>3
<1> HIDE DEF x
<1>5. mult * x \in Int /\ 0 <= mult * x /\ mult * x <= mult * (100 * d)
  BY <1>4, ProductMonotone
<1>6. 100 * d \in Nat \ {0}
  OBVIOUS
<1>7. (mult * x) \div (100 * d) \in Int
  BY <1>5, <1>6, QuotientType
<1>8. (mult * x) \div (100 * d) <= mult /\ 0 <= (mult * x) \div (100 * d)
  BY <1>5, <1>6, QuotientBound
<1>9. (mult * x) \div (100 * d) \in Nat /\ (mult * x) \div (100 * d) <= mult
  BY <1>7, <1>8
<1> QED BY <1>9 DEF Ramp, x

\* A ramp that leads upwards does not step back, one that leads downwards does
\* not rise.
LEMMA RampMonotone ==
    ASSUME NEW mult \in Nat, NEW from \in Nat, NEW to \in Nat,
           NEW d \in Nat \ {0}, NEW n \in Nat, NEW k \in Nat, n <= k
    PROVE  /\ from <= to => Ramp(mult, from, to, n, d) <= Ramp(mult, from, to, k, d)
           /\ to <= from => Ramp(mult, from, to, k, d) <= Ramp(mult, from, to, n, d)
<1> DEFINE x(i) == from * d + (to - from) * i
<1>1. x(n) \in Int /\ x(k) \in Int
  OBVIOUS
<1>2. from <= to => x(n) <= x(k)
  OBVIOUS
<1>3. to <= from => x(k) <= x(n)
  OBVIOUS
<1>4. 100 * d \in Nat \ {0}
  OBVIOUS
<1> HIDE DEF x
<1>5. from <= to => (mult * x(n)) \div (100 * d) <= (mult * x(k)) \div (100 * d)
  BY <1>1, <1>2, <1>4, ProductMonotone, QuotientMonotone
<1>6. to <= from => (mult * x(k)) \div (100 * d) <= (mult * x(n)) \div (100 * d)
  BY <1>1, <1>3, <1>4, ProductMonotone, QuotientMonotone
<1> QED BY <1>5, <1>6 DEF Ramp, x

-----------------------------------------------------------------------------
(* The programs *)

ProgramType == [rise : 40..90, set : 40..90, rise_from : 0..100, rise_to : 0..100,
                set_from : 0..100, set_to : 0..100, stretch : BOOLEAN]

\* Ramps last 40 to 90 minutes, lead upwards by morning and downwards by night.
LEMMA ProgramBounds ==
    ASSUME NEW s \in PlanType
    PROVE  /\ ProgramOf(s) \in ProgramType
           /\ ProgramOf(s).rise_from <= ProgramOf(s).rise_to
           /\ ProgramOf(s).set_to <= ProgramOf(s).set_from
<1>1. ProgramOf(s) \in {Fluval, BrightDay, Plants, Custom}
  BY DEF ProgramOf
<1>2. ASSUME NEW p, p \in {Fluval, BrightDay, Plants, Custom}
      PROVE  p \in ProgramType /\ p.rise_from <= p.rise_to /\ p.set_to <= p.set_from
  <2>1. CASE p = Fluval
    BY <2>1 DEF ProgramType, Fluval
  <2>2. CASE p = BrightDay
    BY <2>2 DEF ProgramType, BrightDay
  <2>3. CASE p = Plants
    BY <2>3 DEF ProgramType, Plants
  <2>4. CASE p = Custom
    BY <2>4 DEF ProgramType, Custom
  <2> QED BY <1>2, <2>1, <2>2, <2>3, <2>4
<1> QED BY <1>1, <1>2

LEMMA MultBound ==
    ASSUME NEW s \in PlanType, NEW throttle \in BOOLEAN
    PROVE  Mult(s, throttle) \in Nat /\ Mult(s, throttle) <= Unit
<1> DEFINE m == s.max_brightness_pct * s.brightness_trim_pct
           a == IF throttle THEN m \div 2 ELSE m
           b == IF s.acclimation THEN a \div 2 ELSE a
<1>1. s.max_brightness_pct \in Nat /\ s.brightness_trim_pct \in Nat
  BY DEF PlanType
<1>2. m \in Nat
  BY <1>1
<1> HIDE DEF m
<1>3. a \in Nat
  BY <1>2
<1> HIDE DEF a
<1>4. b \in Nat
  BY <1>3
<1> HIDE DEF b
<1>5. Mult(s, throttle) = Min2(Unit, b)
  BY DEF Mult, m, a, b
<1> QED BY <1>4, <1>5 DEF Min2, Unit

LEMMA MoonBound ==
    ASSUME NEW s \in PlanType, NEW throttle \in BOOLEAN
    PROVE  Moon(s, throttle) \in Nat /\ Moon(s, throttle) <= Dim
<1>1. s.moon_brightness_pct \in 0..200
  BY DEF PlanType
<1>2. Min2(30, s.moon_brightness_pct) \in 0..30
  BY <1>1 DEF Min2
<1> QED BY <1>2 DEF Moon, Dim

\* The points of a day: its start st and end e, the end re of the sunrise and the
\* start ss of the sunset, with ramps of the lengths rise and set.
Points(st, e, re, ss, rise, set) ==
    /\ re <= e /\ re <= st + rise /\ (re = e \/ re = st + rise)
    /\ st <= ss /\ e - set <= ss /\ (ss = st \/ ss = e - set)

LEMMA RiseSetPoints ==
    ASSUME NEW st \in Int, NEW e \in Int, NEW rise \in Int, NEW set \in Int
    PROVE  /\ Min2(e, st + rise) \in Int /\ Max2(st, e - set) \in Int
           /\ Points(st, e, Min2(e, st + rise), Max2(st, e - set), rise, set)
BY DEF Points, Min2, Max2

LEMMA PlanTimes ==
    ASSUME NEW s \in PlanType
    PROVE  /\ s.hour_start \in Nat /\ s.hour_start <= Day
           /\ s.hour_end \in Nat
           /\ s.hour_moon_end \in Nat /\ s.hour_moon_end <= Day
<1>1. s.hour_start \in 0..Day /\ s.hour_end \in 0..Day /\ s.hour_moon_end \in 0..Day
  BY DEF PlanType
<1>2. Day \in Int
  BY DEF Day
<1>3. ASSUME NEW d \in Int, NEW h \in 0..d
      PROVE  h \in Nat /\ h <= d
  OBVIOUS
<1> QED BY <1>1, <1>2, <1>3, Zenon

LEMMA EndIs ==
    ASSUME NEW s
    PROVE  EndOf(s) = s.hour_start + 600 \/ EndOf(s) = s.hour_end
BY DEF EndOf

LEMMA EndPoint ==
    ASSUME NEW st \in Nat, NEW end \in Nat, NEW e, e = st + 600 \/ e = end
    PROVE  e \in Nat
OBVIOUS

LEMMA EndType ==
    ASSUME NEW s \in PlanType
    PROVE  EndOf(s) \in Nat
<1>1. s.hour_start \in Nat /\ s.hour_end \in Nat
  BY PlanTimes
<1>2. EndOf(s) = s.hour_start + 600 \/ EndOf(s) = s.hour_end
  BY EndIs
<1> QED BY <1>1, <1>2, EndPoint, Zenon

\* Every plan has such points, with ramps of 40 to 90 minutes.
LEMMA PlanPoints ==
    ASSUME NEW s \in PlanType
    PROVE  /\ RiseEnd(s) \in Int /\ SetStart(s) \in Int
           /\ Points(s.hour_start, EndOf(s), RiseEnd(s), SetStart(s),
                     ProgramOf(s).rise, ProgramOf(s).set)
<1>1. ProgramOf(s).rise \in Int /\ ProgramOf(s).set \in Int
  BY ProgramBounds DEF ProgramType
<1>2. s.hour_start \in Int /\ EndOf(s) \in Int
  BY PlanTimes, EndType
<1>4. RiseEnd(s) = Min2(EndOf(s), s.hour_start + ProgramOf(s).rise)
  BY DEF RiseEnd
<1>5. SetStart(s) = Max2(s.hour_start, EndOf(s) - ProgramOf(s).set)
  BY DEF SetStart
<1>6. ASSUME NEW st \in Int, NEW e \in Int, NEW rise \in Int, NEW set \in Int
      PROVE  /\ Min2(e, st + rise) \in Int /\ Max2(st, e - set) \in Int
             /\ Points(st, e, Min2(e, st + rise), Max2(st, e - set), rise, set)
  BY RiseSetPoints
<1>7. /\ Min2(EndOf(s), s.hour_start + ProgramOf(s).rise) \in Int
      /\ Max2(s.hour_start, EndOf(s) - ProgramOf(s).set) \in Int
      /\ Points(s.hour_start, EndOf(s), Min2(EndOf(s), s.hour_start + ProgramOf(s).rise),
                Max2(s.hour_start, EndOf(s) - ProgramOf(s).set),
                ProgramOf(s).rise, ProgramOf(s).set)
  BY <1>1, <1>2, <1>6, Zenon
<1> QED BY <1>4, <1>5, <1>7, Zenon

-----------------------------------------------------------------------------
(* The phase in terms of the points of the day *)

DayPhase(st, e, re, ss, h, moon) ==
    IF st <= h /\ h < e
    THEN IF h < re THEN "sunrise" ELSE IF h < ss THEN "day" ELSE "sunset"
    ELSE IF moon THEN "moon" ELSE "night"

LEMMA PhaseIs ==
    ASSUME NEW s, NEW h, NEW t
    PROVE  PhaseAt(s, h, t) =
             DayPhase(s.hour_start, EndOf(s), RiseEnd(s), SetStart(s), h,
                      NightLight(s, h) /\ Moon(s, t) > 10)
BY DEF PhaseAt, DayPhase

\* The clock goes on by d minutes, or round past midnight.
LEMMA ClockStep ==
    ASSUME NEW h \in Nat, h <= 1439, NEW d \in Nat, 1 <= d, d <= 1439
    PROVE  /\ (h + d) % 1440 \in Nat /\ (h + d) % 1440 <= 1439
           /\ (h + d) % 1440 = h + d \/ (h + d) % 1440 = h + d - 1440
<1>1. CASE h + d < 1440
  <2>1. (h + d) % 1440 = h + d
    BY <1>1
  <2> QED BY <1>1, <2>1
<1>2. CASE 1440 <= h + d
  <2>1. (h + d) % 1440 = h + d - 1440
    BY <1>2
  <2> QED BY <1>2, <2>1
<1> QED BY <1>1, <1>2

\* With steps shorter than a ramp, no twilight is jumped over.
LEMMA TwilightBetween ==
    ASSUME NEW st \in Nat, NEW e \in Nat, NEW re \in Int, NEW ss \in Int,
           NEW rise \in Int, NEW set \in Int, NEW d \in Nat,
           Points(st, e, re, ss, rise, set),
           ShortRamp <= rise, ShortRamp <= set, d <= ShortRamp,
           NEW h \in Nat, h < Day, NEW k \in Nat, k = h + d \/ k = h + d - Day,
           NEW m \in BOOLEAN, NEW n \in BOOLEAN,
           NEW p, p = DayPhase(st, e, re, ss, h, m),
           NEW q, q = DayPhase(st, e, re, ss, k, n)
    PROVE  /\ p # "day" /\ q = "day" => p = "sunrise"
           /\ p = "day" /\ q # "day" => q = "sunset" \/ e > Day
<1>1. ASSUME st <= k, k < e, re <= k, k < ss
      PROVE  st <= h /\ h < e /\ (h < re \/ h < ss)
  BY <1>1 DEF Points, ShortRamp, Day
<1>2. ASSUME st <= h, h < e, re <= h, h < ss, e <= Day
      PROVE  st <= k /\ k < e /\ re <= k
  BY <1>2 DEF Points, ShortRamp, Day
<1>3. e > Day \/ e <= Day
  BY DEF Day
<1> QED BY <1>1, <1>2, <1>3 DEF DayPhase

\* Two looks at the clock in one twilight are in the order of the minutes.
LEMMA TwilightOrder ==
    ASSUME NEW st \in Nat, NEW e \in Nat, NEW re \in Int, NEW ss \in Int,
           NEW rise \in Int, NEW set \in Int, NEW d \in Nat,
           Points(st, e, re, ss, rise, set),
           rise <= LongRamp, set <= LongRamp, d <= Day - LongRamp,
           NEW h \in Nat, NEW k \in Nat, k = h + d \/ k = h + d - Day,
           NEW m \in BOOLEAN, NEW n \in BOOLEAN,
           NEW p, p = DayPhase(st, e, re, ss, h, m),
           NEW q, q = DayPhase(st, e, re, ss, k, n)
    PROVE  /\ p = "sunrise" /\ q = "sunrise" => st <= h /\ h <= k
           /\ p = "sunset" /\ q = "sunset" => ss <= h /\ h <= k
<1>1. ASSUME st <= h, h < re, st <= k, k < re
      PROVE  h <= k
  BY <1>1 DEF Points, LongRamp, Day
<1>2. ASSUME ss <= h, h < e, ss <= k, k < e
      PROVE  h <= k
  BY <1>2 DEF Points, LongRamp, Day
<1>3. /\ p = "sunset" => ss <= h /\ h < e
      /\ p = "sunrise" => st <= h /\ h < re
  BY DEF DayPhase
<1>4. /\ q = "sunset" => ss <= k /\ k < e
      /\ q = "sunrise" => st <= k /\ k < re
  BY DEF DayPhase
<1> QED BY <1>1, <1>2, <1>3, <1>4

\* Where the hour lies in the twilight of its phase.
LEMMA TwilightPlace ==
    ASSUME NEW st \in Int, NEW e \in Int, NEW re \in Int, NEW ss \in Int, NEW h \in Int,
           NEW m \in BOOLEAN
    PROVE  /\ DayPhase(st, e, re, ss, h, m) = "sunrise" =>
                h - st \in Nat /\ h - st <= Max2(3, re - st)
           /\ DayPhase(st, e, re, ss, h, m) = "sunset" =>
                h - ss \in Nat /\ h - ss <= Max2(3, e - ss)
           /\ Max2(3, re - st) \in Nat \ {0}
           /\ Max2(3, e - ss) \in Nat \ {0}
<1>1. DayPhase(st, e, re, ss, h, m) = "sunrise" => st <= h /\ h < re
  BY DEF DayPhase
<1>2. DayPhase(st, e, re, ss, h, m) = "sunset" => ss <= h /\ h < e
  BY DEF DayPhase
<1> QED BY <1>1, <1>2 DEF Max2

\* The minutes since the end of the day, and the length of the night light's arc.
LEMMA SinceEnd ==
    ASSUME NEW st \in Nat, NEW e \in Nat, NEW h \in Nat,
           st < e, e <= Day, h < Day, ~(st <= h /\ h < e),
           NEW hr \in Int, h < st => hr = h + Day, st <= h => hr = h
    PROVE  (h - e) % Day = hr - e /\ e <= hr
BY SMTT(20) DEF Day

LEMMA ArcLength ==
    ASSUME NEW e \in Nat, NEW hm \in Nat, e <= Day, 0 < e, hm <= Day,
           NEW hmm \in Int, NEW arc \in Int,
           e < hm => hmm = hm /\ arc = (hm - e) % Day,
           hm < e => hmm = hm + Day /\ arc = (hm - e) % Day,
           e = hm => hmm = hm + Day /\ arc = Day
    PROVE  arc = hmm - e
BY SMTT(20) DEF Day

-----------------------------------------------------------------------------
(* The invariant: phase and brightness are those of the hour. *)

DayInv ==
    /\ plan \in PlanType
    /\ hour \in Nat /\ hour <= 1439
    /\ thermal_throttle \in BOOLEAN
    /\ phase = PhaseAt(plan, hour, thermal_throttle)
    /\ brightness = BrightnessAt(plan, hour, thermal_throttle)

LEMMA AdvanceHour ==
    ASSUME DayInv, Advance
    PROVE  /\ hour' \in Nat /\ hour' <= 1439
           /\ hour' = hour + Step \/ hour' = hour + Step - 1440
<1>1. hour \in Nat /\ hour <= 1439
  BY DEF DayInv
<1>2. Step \in Nat /\ 1 <= Step /\ Step <= 1439
  BY StepAssumption DEF Day
<1>3. hour' = (hour + Step) % 1440
  BY DEF Advance, Day
<1>4. /\ (hour + Step) % 1440 \in Nat /\ (hour + Step) % 1440 <= 1439
      /\ (hour + Step) % 1440 = hour + Step \/ (hour + Step) % 1440 = hour + Step - 1440
  BY <1>1, <1>2, ClockStep
<1> QED BY <1>3, <1>4

LEMMA DayInvHolds == Spec => []DayInv
<1>1. Init => DayInv
  <2> SUFFICES ASSUME Init PROVE DayInv
    OBVIOUS
  <2>1. hour = 0 /\ 0 \in Nat /\ 0 <= 1439
    BY SMT DEF Init
  <2>2. plan \in PlanType /\ thermal_throttle = FALSE
    BY PlanAssumption, Zenon DEF Init
  <2> QED BY <2>1, <2>2, Zenon DEF Init, DayInv
<1>2. DayInv /\ [Next]_vars => DayInv'
  <2> SUFFICES ASSUME DayInv, [Next]_vars
               PROVE  DayInv'
    OBVIOUS
  <2>1. CASE Advance
    <3>1. hour' \in Nat /\ hour' <= 1439
      BY <2>1, AdvanceHour
    <3> QED BY <2>1, <3>1 DEF Advance, Compute, DayInv
  <2>2. CASE Throttle
    BY <2>2 DEF Throttle, Compute, DayInv
  <2>3. CASE UNCHANGED vars
    BY <2>3 DEF vars, DayInv
  <2> QED BY <2>1, <2>2, <2>3 DEF Next
<1> QED BY <1>1, <1>2, PTL DEF Spec

\* The brightness of each phase.
LEMMA BrightnessIs ==
    ASSUME NEW s, NEW h, NEW t
    PROVE  /\ PhaseAt(s, h, t) = "sunrise" =>
                BrightnessAt(s, h, t) =
                  Ramp(Mult(s, t), ProgramOf(s).rise_from, ProgramOf(s).rise_to,
                       h - s.hour_start, Max2(3, RiseEnd(s) - s.hour_start))
           /\ PhaseAt(s, h, t) = "sunset" =>
                BrightnessAt(s, h, t) =
                  Ramp(Mult(s, t), ProgramOf(s).set_from, ProgramOf(s).set_to,
                       h - SetStart(s), Max2(3, EndOf(s) - SetStart(s)))
           /\ PhaseAt(s, h, t) = "day" => BrightnessAt(s, h, t) = Mult(s, t)
           /\ PhaseAt(s, h, t) = "moon" => BrightnessAt(s, h, t) = Moon(s, t)
           /\ PhaseAt(s, h, t) = "night" => BrightnessAt(s, h, t) = 0
<1> HIDE DEF PhaseAt
<1> QED BY DEF BrightnessAt

LEMMA Percents ==
    ASSUME NEW s \in PlanType
    PROVE  /\ ProgramOf(s).rise_from \in Nat /\ ProgramOf(s).rise_from <= Whole
           /\ ProgramOf(s).rise_to \in Nat /\ ProgramOf(s).rise_to <= Whole
           /\ ProgramOf(s).set_from \in Nat /\ ProgramOf(s).set_from <= Whole
           /\ ProgramOf(s).set_to \in Nat /\ ProgramOf(s).set_to <= Whole
           /\ ProgramOf(s).rise_from <= ProgramOf(s).rise_to
           /\ ProgramOf(s).set_to <= ProgramOf(s).set_from
           /\ ShortRamp <= ProgramOf(s).rise /\ ProgramOf(s).rise <= LongRamp
           /\ ShortRamp <= ProgramOf(s).set /\ ProgramOf(s).set <= LongRamp
           /\ ProgramOf(s).rise \in Int /\ ProgramOf(s).set \in Int
<1>1. ProgramOf(s) \in ProgramType
  BY ProgramBounds
<1>2. ASSUME NEW p \in ProgramType
      PROVE  /\ p.rise_from \in Nat /\ p.rise_from <= Whole
             /\ p.rise_to \in Nat /\ p.rise_to <= Whole
             /\ p.set_from \in Nat /\ p.set_from <= Whole
             /\ p.set_to \in Nat /\ p.set_to <= Whole
             /\ ShortRamp <= p.rise /\ p.rise <= LongRamp /\ p.rise \in Int
             /\ ShortRamp <= p.set /\ p.set <= LongRamp /\ p.set \in Int
  BY DEF ProgramType, Whole, ShortRamp, LongRamp
<1> QED BY <1>1, <1>2, ProgramBounds, Zenon

-----------------------------------------------------------------------------
(* Types *)

LEMMA SunriseBound ==
    ASSUME NEW s \in PlanType, NEW h \in Nat, NEW t \in BOOLEAN,
           PhaseAt(s, h, t) = "sunrise"
    PROVE  BrightnessAt(s, h, t) \in Nat /\ BrightnessAt(s, h, t) <= Unit
<1> DEFINE d == Max2(3, RiseEnd(s) - s.hour_start)
           n == h - s.hour_start
<1>1. s.hour_start \in Int /\ EndOf(s) \in Int /\ RiseEnd(s) \in Int /\ SetStart(s) \in Int
  BY PlanTimes, EndType, PlanPoints
<1>2. h \in Int /\ (NightLight(s, h) /\ Moon(s, t) > 10) \in BOOLEAN
  OBVIOUS
<1>3. DayPhase(s.hour_start, EndOf(s), RiseEnd(s), SetStart(s), h,
               NightLight(s, h) /\ Moon(s, t) > 10) = "sunrise"
  BY PhaseIs
<1>4. d \in Nat \ {0} /\ n \in Nat /\ n <= d
  BY <1>1, <1>2, <1>3, TwilightPlace, Zenon
<1>5. BrightnessAt(s, h, t) =
        Ramp(Mult(s, t), ProgramOf(s).rise_from, ProgramOf(s).rise_to, n, d)
  BY BrightnessIs
<1> HIDE DEF d, n
<1>6. Mult(s, t) \in Nat /\ Mult(s, t) <= Unit /\ Unit \in Nat
  BY MultBound DEF Unit
<1>7. /\ ProgramOf(s).rise_from \in Nat /\ ProgramOf(s).rise_from <= Whole
      /\ ProgramOf(s).rise_to \in Nat /\ ProgramOf(s).rise_to <= Whole
  BY Percents
<1>8. ASSUME NEW from \in Nat, from <= Whole, NEW to \in Nat, to <= Whole,
             NEW mult \in Nat
      PROVE  Ramp(mult, from, to, n, d) \in Nat /\ Ramp(mult, from, to, n, d) <= mult
  BY <1>4, <1>8, RampBound, Zenon
<1>9. BrightnessAt(s, h, t) \in Nat /\ BrightnessAt(s, h, t) <= Mult(s, t)
  BY <1>5, <1>6, <1>7, <1>8
<1> QED BY <1>6, <1>9

LEMMA SunsetBound ==
    ASSUME NEW s \in PlanType, NEW h \in Nat, NEW t \in BOOLEAN,
           PhaseAt(s, h, t) = "sunset"
    PROVE  BrightnessAt(s, h, t) \in Nat /\ BrightnessAt(s, h, t) <= Unit
<1> DEFINE d == Max2(3, EndOf(s) - SetStart(s))
           n == h - SetStart(s)
<1>1. s.hour_start \in Int /\ EndOf(s) \in Int /\ RiseEnd(s) \in Int /\ SetStart(s) \in Int
  BY PlanTimes, EndType, PlanPoints
<1>2. h \in Int /\ (NightLight(s, h) /\ Moon(s, t) > 10) \in BOOLEAN
  OBVIOUS
<1>3. DayPhase(s.hour_start, EndOf(s), RiseEnd(s), SetStart(s), h,
               NightLight(s, h) /\ Moon(s, t) > 10) = "sunset"
  BY PhaseIs
<1>4. d \in Nat \ {0} /\ n \in Nat /\ n <= d
  BY <1>1, <1>2, <1>3, TwilightPlace, Zenon
<1>5. BrightnessAt(s, h, t) =
        Ramp(Mult(s, t), ProgramOf(s).set_from, ProgramOf(s).set_to, n, d)
  BY BrightnessIs
<1> HIDE DEF d, n
<1>6. Mult(s, t) \in Nat /\ Mult(s, t) <= Unit /\ Unit \in Nat
  BY MultBound DEF Unit
<1>7. /\ ProgramOf(s).set_from \in Nat /\ ProgramOf(s).set_from <= Whole
      /\ ProgramOf(s).set_to \in Nat /\ ProgramOf(s).set_to <= Whole
  BY Percents
<1>8. ASSUME NEW from \in Nat, from <= Whole, NEW to \in Nat, to <= Whole,
             NEW mult \in Nat
      PROVE  Ramp(mult, from, to, n, d) \in Nat /\ Ramp(mult, from, to, n, d) <= mult
  BY <1>4, <1>8, RampBound, Zenon
<1>9. BrightnessAt(s, h, t) \in Nat /\ BrightnessAt(s, h, t) <= Mult(s, t)
  BY <1>5, <1>6, <1>7, <1>8
<1> QED BY <1>6, <1>9

\* For every plan the settings can hold, and whatever the step of the clock, the
\* brightness stays within 1.0, and within 30 % by night.
THEOREM ScheduleType == Spec => []TypeOK
<1>1. DayInv => TypeOK
  <2> SUFFICES ASSUME DayInv PROVE TypeOK
    OBVIOUS
  <2>1. plan \in PlanType /\ hour \in Nat /\ hour <= 1439 /\ thermal_throttle \in BOOLEAN
    BY DEF DayInv
  <2>2. phase = PhaseAt(plan, hour, thermal_throttle)
        /\ brightness = BrightnessAt(plan, hour, thermal_throttle)
    BY DEF DayInv
  <2>3. hour \in 0..Day - 1
    BY <2>1 DEF Day
  <2>4. PhaseAt(plan, hour, thermal_throttle) \in Phases
    BY DEF PhaseAt, Phases
  <2>5. brightness \in Nat /\ brightness <= Unit
    <3>1. CASE phase = "sunrise"
      BY <2>1, <2>2, <3>1, SunriseBound
    <3>2. CASE phase = "sunset"
      BY <2>1, <2>2, <3>2, SunsetBound
    <3>3. CASE phase = "day"
      <4>1. brightness = Mult(plan, thermal_throttle)
        BY <2>2, <3>3, BrightnessIs
      <4> QED BY <2>1, <4>1, MultBound, Zenon
    <3>4. CASE phase = "moon"
      <4>1. brightness = Moon(plan, thermal_throttle)
        BY <2>2, <3>4, BrightnessIs
      <4>2. Moon(plan, thermal_throttle) \in Nat /\ Moon(plan, thermal_throttle) <= Dim
        BY <2>1, MoonBound, Zenon
      <4> HIDE DEF Moon
      <4> QED BY <4>1, <4>2 DEF Unit, Dim
    <3>5. CASE phase = "night"
      <4>1. brightness = 0
        BY <2>2, <3>5, BrightnessIs
      <4> QED BY <4>1 DEF Unit
    <3> QED BY <2>2, <2>4, <3>1, <3>2, <3>3, <3>4, <3>5 DEF Phases
  <2>6. ASSUME phase = "moon" PROVE brightness <= 3000
    <3>1. brightness = Moon(plan, thermal_throttle)
      BY <2>2, <2>6, BrightnessIs
    <3>2. Moon(plan, thermal_throttle) \in Nat /\ Moon(plan, thermal_throttle) <= Dim
      BY <2>1, MoonBound, Zenon
    <3> HIDE DEF Moon
    <3> QED BY <3>1, <3>2 DEF Dim
  <2>7. brightness \in 0..Unit
    BY <2>5 DEF Unit
  <2> QED BY <2>1, <2>2, <2>3, <2>4, <2>6, <2>7, Zenon DEF TypeOK
<1> QED BY <1>1, DayInvHolds, PTL

-----------------------------------------------------------------------------
(* The night light *)

LEMMA NightLightIs ==
    ASSUME NEW s, NEW h
    PROVE  LET hm == IF s.hour_moon_end > EndOf(s) THEN s.hour_moon_end
                     ELSE s.hour_moon_end + Day
               hr == IF h < s.hour_start THEN h + Day ELSE h
           IN  NightLight(s, h) <=> (EndOf(s) <= hr /\ hr < hm)
BY DEF NightLight

LEMMA MoonPhase ==
    ASSUME NEW s, NEW h, NEW t
    PROVE  PhaseAt(s, h, t) = "moon" <=>
             /\ ~(s.hour_start <= h /\ h < EndOf(s))
             /\ NightLight(s, h) /\ Moon(s, t) > 10
BY DEF PhaseAt

\* Across midnight too, the night light burns on the arc of the clock between the
\* end of the day and hour_moon_end, for every plan whose day ends after it
\* starts and not past midnight.
THEOREM NightLightOnArc == Spec => []NightLightIsArc
<1>1. DayInv => NightLightIsArc
  <2> SUFFICES ASSUME DayInv, plan.hour_start < EndOf(plan), EndOf(plan) <= Day
               PROVE  phase = "moon" <=>
                        /\ hour \notin plan.hour_start..EndOf(plan) - 1
                        /\ (hour - EndOf(plan)) % Day
                             < (IF EndOf(plan) = plan.hour_moon_end THEN Day
                                ELSE (plan.hour_moon_end - EndOf(plan)) % Day)
                        /\ Moon(plan, thermal_throttle) > 10
    BY Zenon DEF NightLightIsArc, Arc
  <2>1. /\ plan.hour_start \in Nat /\ EndOf(plan) \in Nat
        /\ plan.hour_moon_end \in Nat /\ plan.hour_moon_end <= Day
    BY PlanTimes, EndType DEF DayInv
  <2>2. hour \in Nat /\ hour < Day
    BY DEF DayInv, Day
  <2>3. hour \notin plan.hour_start..EndOf(plan) - 1
          <=> ~(plan.hour_start <= hour /\ hour < EndOf(plan))
    BY <2>1, <2>2
  <2>4. phase = "moon" <=>
          /\ ~(plan.hour_start <= hour /\ hour < EndOf(plan))
          /\ NightLight(plan, hour) /\ Moon(plan, thermal_throttle) > 10
    BY MoonPhase DEF DayInv
  <2>5. ASSUME ~(plan.hour_start <= hour /\ hour < EndOf(plan))
        PROVE  NightLight(plan, hour) <=>
                 (hour - EndOf(plan)) % Day
                   < (IF EndOf(plan) = plan.hour_moon_end THEN Day
                      ELSE (plan.hour_moon_end - EndOf(plan)) % Day)
    <3> DEFINE hm == IF plan.hour_moon_end > EndOf(plan) THEN plan.hour_moon_end
                     ELSE plan.hour_moon_end + Day
               hr == IF hour < plan.hour_start THEN hour + Day ELSE hour
               arc == IF EndOf(plan) = plan.hour_moon_end THEN Day
                      ELSE (plan.hour_moon_end - EndOf(plan)) % Day
    <3>1. NightLight(plan, hour) <=> (EndOf(plan) <= hr /\ hr < hm)
      BY NightLightIs
    <3>2. /\ EndOf(plan) < plan.hour_moon_end =>
               /\ hm = plan.hour_moon_end
               /\ arc = (plan.hour_moon_end - EndOf(plan)) % Day
          /\ plan.hour_moon_end < EndOf(plan) =>
               /\ hm = plan.hour_moon_end + Day
               /\ arc = (plan.hour_moon_end - EndOf(plan)) % Day
          /\ EndOf(plan) = plan.hour_moon_end =>
               hm = plan.hour_moon_end + Day /\ arc = Day
      BY <2>1
    <3>3. /\ hour < plan.hour_start => hr = hour + Day
          /\ plan.hour_start <= hour => hr = hour
      BY <2>1, <2>2
    <3>4. hm \in Int /\ hr \in Int /\ arc \in Int /\ 0 < EndOf(plan)
      BY <2>1, <2>2 DEF Day
    <3> HIDE DEF hm, hr, arc
    <3>5. (hour - EndOf(plan)) % Day = hr - EndOf(plan) /\ EndOf(plan) <= hr
      BY <2>1, <2>2, <2>5, <3>3, <3>4, SinceEnd, Zenon
    <3>6. arc = hm - EndOf(plan)
      BY <2>1, <3>2, <3>4, ArcLength, Zenon
    <3>7. (EndOf(plan) <= hr /\ hr < hm) <=> (hour - EndOf(plan)) % Day < arc
      BY <2>1, <3>4, <3>5, <3>6
    <3> QED BY <3>1, <3>7, Zenon DEF arc
  <2> QED BY <2>3, <2>4, <2>5, Zenon
<1> QED BY <1>1, DayInvHolds, PTL

-----------------------------------------------------------------------------
(* The clock's steps *)

LEMMA HourMoves ==
    ASSUME [Next]_vars, hour' # hour
    PROVE  Advance
BY DEF Next, Throttle, vars

\* Full day is reached through sunrise only and left for sunset only, for every
\* plan and every step of the clock not longer than the shortest ramp.
THEOREM TwilightIsSeen == Step <= 40 => (Spec => DayThroughTwilight)
<1> SUFFICES ASSUME Step <= 40
             PROVE  Spec => DayThroughTwilight
  OBVIOUS
<1>1. DayInv /\ DayInv' /\ [Next]_vars =>
        [hour' # hour =>
         /\ phase # "day" /\ phase' = "day" => phase = "sunrise"
         /\ phase = "day" /\ phase' # "day" =>
              phase' = "sunset" \/ EndOf(plan) > Day]_vars
  <2> SUFFICES ASSUME DayInv, DayInv', [Next]_vars, hour' # hour
               PROVE  /\ phase # "day" /\ phase' = "day" => phase = "sunrise"
                      /\ phase = "day" /\ phase' # "day" =>
                           phase' = "sunset" \/ EndOf(plan) > Day
    OBVIOUS
  <2> DEFINE moon == NightLight(plan, hour) /\ Moon(plan, thermal_throttle) > 10
             next == NightLight(plan, hour') /\ Moon(plan, thermal_throttle) > 10
  <2>1. Advance
    BY HourMoves
  <2>2. /\ plan \in PlanType /\ plan' = plan /\ thermal_throttle' = thermal_throttle
        /\ hour \in Nat /\ hour < Day
        /\ phase = PhaseAt(plan, hour, thermal_throttle)
        /\ phase' = PhaseAt(plan, hour', thermal_throttle)
    BY <2>1 DEF DayInv, Advance, Compute, Day
  <2>3. hour' \in Nat /\ (hour' = hour + Step \/ hour' = hour + Step - Day)
    BY <2>1, AdvanceHour DEF Day
  <2>4. /\ plan.hour_start \in Nat /\ EndOf(plan) \in Nat
        /\ RiseEnd(plan) \in Int /\ SetStart(plan) \in Int
        /\ Points(plan.hour_start, EndOf(plan), RiseEnd(plan), SetStart(plan),
                  ProgramOf(plan).rise, ProgramOf(plan).set)
    BY <2>2, PlanTimes, EndType, PlanPoints
  <2>5. /\ ProgramOf(plan).rise \in Int /\ ProgramOf(plan).set \in Int
        /\ ShortRamp <= ProgramOf(plan).rise /\ ShortRamp <= ProgramOf(plan).set
    BY <2>2, Percents
  <2>6. Step \in Nat /\ Step <= ShortRamp
    BY StepAssumption DEF Day, ShortRamp
  <2>7. /\ phase = DayPhase(plan.hour_start, EndOf(plan), RiseEnd(plan), SetStart(plan),
                            hour, moon)
        /\ phase' = DayPhase(plan.hour_start, EndOf(plan), RiseEnd(plan), SetStart(plan),
                             hour', next)
    BY <2>2, PhaseIs, Zenon
  <2>8. moon \in BOOLEAN /\ next \in BOOLEAN
    OBVIOUS
  <2> HIDE DEF moon, next
  <2> QED BY <2>2, <2>3, <2>4, <2>5, <2>6, <2>7, <2>8, TwilightBetween
<1> QED BY <1>1, DayInvHolds, PTL DEF Spec, DayThroughTwilight

\* While the sun rises the light does not step back, while it sets it does not
\* step up, for every plan and every step of the clock not longer than what is
\* left of a day after the longest ramp.
THEOREM TwilightIsMonotone == Step <= 1350 => (Spec => TwilightMonotone)
<1> SUFFICES ASSUME Step <= 1350
             PROVE  Spec => TwilightMonotone
  OBVIOUS
<1>1. DayInv /\ DayInv' /\ [Next]_vars =>
        [hour' # hour =>
         /\ phase = "sunrise" /\ phase' = "sunrise" => brightness <= brightness'
         /\ phase = "sunset" /\ phase' = "sunset" => brightness' <= brightness]_vars
  <2> SUFFICES ASSUME DayInv, DayInv', [Next]_vars, hour' # hour
               PROVE  /\ phase = "sunrise" /\ phase' = "sunrise" => brightness <= brightness'
                      /\ phase = "sunset" /\ phase' = "sunset" => brightness' <= brightness
    OBVIOUS
  <2> DEFINE moon == NightLight(plan, hour) /\ Moon(plan, thermal_throttle) > 10
             next == NightLight(plan, hour') /\ Moon(plan, thermal_throttle) > 10
             mult == Mult(plan, thermal_throttle)
             rise == Max2(3, RiseEnd(plan) - plan.hour_start)
             set  == Max2(3, EndOf(plan) - SetStart(plan))
  <2>1. Advance
    BY HourMoves
  <2>2. /\ plan \in PlanType /\ plan' = plan
        /\ thermal_throttle \in BOOLEAN /\ thermal_throttle' = thermal_throttle
        /\ hour \in Nat
        /\ phase = PhaseAt(plan, hour, thermal_throttle)
        /\ phase' = PhaseAt(plan, hour', thermal_throttle)
        /\ brightness = BrightnessAt(plan, hour, thermal_throttle)
        /\ brightness' = BrightnessAt(plan, hour', thermal_throttle)
    BY <2>1 DEF DayInv, Advance, Compute
  <2>3. hour' \in Nat /\ (hour' = hour + Step \/ hour' = hour + Step - Day)
    BY <2>1, AdvanceHour DEF Day
  <2>4. /\ plan.hour_start \in Nat /\ EndOf(plan) \in Nat
        /\ RiseEnd(plan) \in Int /\ SetStart(plan) \in Int
        /\ Points(plan.hour_start, EndOf(plan), RiseEnd(plan), SetStart(plan),
                  ProgramOf(plan).rise, ProgramOf(plan).set)
    BY <2>2, PlanTimes, EndType, PlanPoints
  <2>5. /\ ProgramOf(plan).rise \in Int /\ ProgramOf(plan).set \in Int
        /\ ProgramOf(plan).rise <= LongRamp /\ ProgramOf(plan).set <= LongRamp
    BY <2>2, Percents
  <2>6. Step \in Nat /\ Step <= Day - LongRamp
    BY StepAssumption DEF Day, LongRamp
  <2>7. /\ phase = DayPhase(plan.hour_start, EndOf(plan), RiseEnd(plan), SetStart(plan),
                            hour, moon)
        /\ phase' = DayPhase(plan.hour_start, EndOf(plan), RiseEnd(plan), SetStart(plan),
                             hour', next)
    BY <2>2, PhaseIs, Zenon
  <2>8. moon \in BOOLEAN /\ next \in BOOLEAN
    OBVIOUS
  <2> HIDE DEF moon, next
  <2>9. /\ phase = "sunrise" /\ phase' = "sunrise" => plan.hour_start <= hour /\ hour <= hour'
        /\ phase = "sunset" /\ phase' = "sunset" => SetStart(plan) <= hour /\ hour <= hour'
    BY <2>2, <2>3, <2>4, <2>5, <2>6, <2>7, <2>8, TwilightOrder
  <2>10. mult \in Nat /\ rise \in Nat \ {0} /\ set \in Nat \ {0}
    <3>1. mult \in Nat
      BY <2>2, MultBound, Zenon
    <3> QED BY <2>4, <3>1 DEF Max2
  <2>11. /\ ProgramOf(plan).rise_from \in Nat /\ ProgramOf(plan).rise_to \in Nat
         /\ ProgramOf(plan).set_from \in Nat /\ ProgramOf(plan).set_to \in Nat
         /\ ProgramOf(plan).rise_from <= ProgramOf(plan).rise_to
         /\ ProgramOf(plan).set_to <= ProgramOf(plan).set_from
    BY <2>2, Percents
  <2>12. ASSUME phase = "sunrise", phase' = "sunrise"
         PROVE  brightness <= brightness'
    <3>1. /\ brightness = Ramp(mult, ProgramOf(plan).rise_from, ProgramOf(plan).rise_to,
                               hour - plan.hour_start, rise)
          /\ brightness' = Ramp(mult, ProgramOf(plan).rise_from, ProgramOf(plan).rise_to,
                                hour' - plan.hour_start, rise)
      BY <2>2, <2>12, BrightnessIs, Zenon
    <3> HIDE DEF mult, rise
    <3>2. /\ hour - plan.hour_start \in Nat /\ hour' - plan.hour_start \in Nat
          /\ hour - plan.hour_start <= hour' - plan.hour_start
      BY <2>2, <2>3, <2>4, <2>9, <2>12
    <3> QED BY <2>10, <2>11, <3>1, <3>2, RampMonotone
  <2>13. ASSUME phase = "sunset", phase' = "sunset"
         PROVE  brightness' <= brightness
    <3>1. /\ brightness = Ramp(mult, ProgramOf(plan).set_from, ProgramOf(plan).set_to,
                               hour - SetStart(plan), set)
          /\ brightness' = Ramp(mult, ProgramOf(plan).set_from, ProgramOf(plan).set_to,
                                hour' - SetStart(plan), set)
      BY <2>2, <2>13, BrightnessIs, Zenon
    <3> HIDE DEF mult, set
    <3>2. /\ hour - SetStart(plan) \in Nat /\ hour' - SetStart(plan) \in Nat
          /\ hour - SetStart(plan) <= hour' - SetStart(plan)
      BY <2>2, <2>3, <2>4, <2>9, <2>13
    <3> QED BY <2>10, <2>11, <3>1, <3>2, RampMonotone
  <2> QED BY <2>12, <2>13
<1> QED BY <1>1, DayInvHolds, PTL DEF Spec, TwilightMonotone
=============================================================================
