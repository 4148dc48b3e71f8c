---------------------------- MODULE ScheduleEngine ----------------------------
(***************************************************************************)
(* The day plan of the light (schedule_engine.cpp): from the local time    *)
(* and the settings to a phase and a brightness.                           *)
(*                                                                         *)
(* compute is a pure function; here a day clock drives it as aq_tick does, *)
(* while the thermal throttle comes and goes.  Times are minutes, 0..1440. *)
(* Brightness 1.0 is Unit; percentages stay integers, so every product of  *)
(* the code is exact up to the rounding down of a ramp.  The colours of a  *)
(* phase follow from the phase alone and are left out.                     *)
(***************************************************************************)
EXTENDS Integers

CONSTANTS
    Plans,   \* the settings of the instance
    Step     \* minutes between two looks at the clock

Day  == 1440
Unit == 10000

Programs == {"PLANTS_PRO", "FLUVAL_CLASSIC", "BRIGHT_DAY", "CUSTOM"}

PlanType ==
    [light_program       : Programs,
     max_brightness_pct  : 0..200,     \* clamp_pct
     brightness_trim_pct : 0..200,
     moon_brightness_pct : 0..200,
     acclimation         : BOOLEAN,
     hour_start          : 0..Day,     \* clamp_hour
     hour_end            : 0..Day,
     hour_moon_end       : 0..Day]

ASSUME PlanAssumption == Plans \subseteq PlanType
ASSUME StepAssumption == Step \in 1..Day - 1

Min2(a, b) == IF a < b THEN a ELSE b
Max2(a, b) == IF a > b THEN a ELSE b

-----------------------------------------------------------------------------
(* A program: lengths of the ramps in minutes, their ends in percent of the *)
(* day's brightness, and whether a day of two hours or less (or one that     *)
(* ends before it starts) is stretched to ten hours.                         *)

Fluval    == [rise |-> 90, set |-> 60, rise_from |-> 5,  rise_to |-> 35,
              set_from |-> 45,  set_to |-> 15, stretch |-> FALSE]
BrightDay == [rise |-> 60, set |-> 90, rise_from |-> 10, rise_to |-> 70,
              set_from |-> 100, set_to |-> 20, stretch |-> FALSE]
Plants    == [rise |-> 40, set |-> 40, rise_from |-> 4,  rise_to |-> 100,
              set_from |-> 100, set_to |-> 6,  stretch |-> TRUE]
Custom    == [rise |-> 40, set |-> 40, rise_from |-> 5,  rise_to |-> 100,
              set_from |-> 100, set_to |-> 8,  stretch |-> TRUE]

ProgramOf(s) == CASE s.light_program = "FLUVAL_CLASSIC" -> Fluval
                  [] s.light_program = "BRIGHT_DAY"     -> BrightDay
                  [] s.light_program = "CUSTOM"         -> Custom
                  [] OTHER                              -> Plants

\* Mutant: the ends of the ramp are swapped.
Ramp_Reversed(mult, from, to, n, d) ==
    (mult * (to * d + (from - to) * n)) \div (100 * d)

\* lerp(from, to, n/d), from and to in percent, as a share of mult.
Ramp(mult, from, to, n, d) == (mult * (from * d + (to - from) * n)) \div (100 * d)

\* Mutant: no limit of 100 %.
Mult_Unlimited(s, throttle) ==
    LET m == s.max_brightness_pct * s.brightness_trim_pct
        a == IF throttle THEN m \div 2 ELSE m
    IN  IF s.acclimation THEN a \div 2 ELSE a

Mult(s, throttle) ==
    LET m == s.max_brightness_pct * s.brightness_trim_pct
        a == IF throttle THEN m \div 2 ELSE m
    IN  Min2(Unit, IF s.acclimation THEN a \div 2 ELSE a)

Moon(s, throttle) ==
    LET m == Min2(30, s.moon_brightness_pct) * 100
    IN  IF throttle THEN (m * 4) \div 5 ELSE m

\* Mutant: a day that ends before it starts is left as it is.
EndOf_NoStretch(s) == s.hour_end

EndOf(s) == IF ProgramOf(s).stretch /\ s.hour_end <= s.hour_start + 120
            THEN s.hour_start + 600 ELSE s.hour_end

RiseEnd(s)  == Min2(EndOf(s), s.hour_start + ProgramOf(s).rise)
SetStart(s) == Max2(s.hour_start, EndOf(s) - ProgramOf(s).set)

\* Mutant: the night before dawn is not counted on from yesterday.
NightLight_NoWrap(s, hour) ==
    LET hm == IF s.hour_moon_end > EndOf(s) THEN s.hour_moon_end
              ELSE s.hour_moon_end + Day
    IN  EndOf(s) <= hour /\ hour < hm

\* The night light burns from the end of the day to hour_moon_end, which is
\* tomorrow's unless it is later than the end; hours before the start belong
\* to the night that began yesterday.
NightLight(s, hour) ==
    LET hm == IF s.hour_moon_end > EndOf(s) THEN s.hour_moon_end
              ELSE s.hour_moon_end + Day
        hr == IF hour < s.hour_start THEN hour + Day ELSE hour
    IN  EndOf(s) <= hr /\ hr < hm

\* Mutant: the day is looked for before the sunrise.
PhaseAt_DayFirst(s, hour, throttle) ==
    IF s.hour_start <= hour /\ hour < EndOf(s)
    THEN IF hour < SetStart(s) THEN "day" ELSE "sunset"
    ELSE IF NightLight(s, hour) /\ Moon(s, throttle) > 10 THEN "moon" ELSE "night"

PhaseAt(s, hour, throttle) ==
    IF s.hour_start <= hour /\ hour < EndOf(s)
    THEN IF hour < RiseEnd(s) THEN "sunrise"
         ELSE IF hour < SetStart(s) THEN "day" ELSE "sunset"
    ELSE IF NightLight(s, hour) /\ Moon(s, throttle) > 10 THEN "moon" ELSE "night"

BrightnessAt(s, hour, throttle) ==
    LET p == ProgramOf(s)
        m == Mult(s, throttle)
        ph == PhaseAt(s, hour, throttle)
    IN  CASE ph = "sunrise" -> Ramp(m, p.rise_from, p.rise_to, hour - s.hour_start,
                                    Max2(3, RiseEnd(s) - s.hour_start))
          [] ph = "day"     -> m
          [] ph = "sunset"  -> Ramp(m, p.set_from, p.set_to, hour - SetStart(s),
                                    Max2(3, EndOf(s) - SetStart(s)))
          [] ph = "moon"    -> Moon(s, throttle)
          [] ph = "night"   -> 0

-----------------------------------------------------------------------------
(* The clock *)

VARIABLES plan, hour, thermal_throttle, phase, brightness

vars == <<plan, hour, thermal_throttle, phase, brightness>>

Compute(s, h, throttle) ==
    /\ phase' = PhaseAt(s, h, throttle)
    /\ brightness' = BrightnessAt(s, h, throttle)

Init == /\ plan \in Plans /\ hour = 0 /\ thermal_throttle = FALSE
        /\ phase = PhaseAt(plan, 0, FALSE)
        /\ brightness = BrightnessAt(plan, 0, FALSE)

Advance == /\ hour' = (hour + Step) % Day
           /\ Compute(plan, hour', thermal_throttle)
           /\ UNCHANGED <<plan, thermal_throttle>>

Throttle == /\ thermal_throttle' = ~thermal_throttle
            /\ Compute(plan, hour, thermal_throttle')
            /\ UNCHANGED <<plan, hour>>

Next == Advance \/ Throttle

Spec == Init /\ [][Next]_vars
FairSpec == Spec /\ WF_vars(Advance)

-----------------------------------------------------------------------------
(* Properties *)

Phases == {"night", "sunrise", "day", "sunset", "moon"}

\* Types; the brightness never passes 1.0, nor 30 % by night, whatever product
\* of percentages up to 200 % the settings hold.
TypeOK ==
    /\ plan \in PlanType
    /\ hour \in 0..Day - 1
    /\ thermal_throttle \in BOOLEAN
    /\ phase \in Phases
    /\ brightness \in 0..Unit
    /\ phase = "moon" => brightness <= 3000

\* The length of the way round the clock from a to b; all of it if they agree.
Arc(a, b) == IF a = b THEN Day ELSE (b - a) % Day

\* Across midnight too, the night light burns on the arc of the clock that
\* leads from the end of the day to hour_moon_end, except by day.  (A plan
\* whose day ends past midnight or before it starts has no such arc.)
NightLightIsArc ==
    LET s == plan IN
    s.hour_start < EndOf(s) /\ EndOf(s) <= Day =>
      (phase = "moon" <=>
         /\ hour \notin s.hour_start..EndOf(s) - 1
         /\ (hour - EndOf(s)) % Day < Arc(EndOf(s), s.hour_moon_end)
         /\ Moon(s, thermal_throttle) > 10)

\* As the clock advances, full day is reached through sunrise only, and left
\* for sunset only, unless the day is cut off at midnight.
DayThroughTwilight ==
    [][hour' # hour =>
         /\ phase # "day" /\ phase' = "day" => phase = "sunrise"
         /\ phase = "day" /\ phase' # "day" =>
              phase' = "sunset" \/ EndOf(plan) > Day]_vars

\* The light does not step back during sunrise nor up during sunset.
TwilightMonotone ==
    [][hour' # hour =>
         /\ phase = "sunrise" /\ phase' = "sunrise" => brightness <= brightness'
         /\ phase = "sunset" /\ phase' = "sunset" => brightness' <= brightness]_vars

\* The sun rises again and again: always with the programs that repair a short
\* or inverted day, otherwise if the day ends after it starts.
SunReturns ==
    (/\ plan.hour_start < Day
     /\ \/ plan.light_program \in {"PLANTS_PRO", "CUSTOM"}
        \/ plan.hour_start < plan.hour_end)
    => []<>(phase = "sunrise")
=============================================================================
