--------------------------- MODULE MCScheduleEngine ---------------------------
(***************************************************************************)
(* Plans for TLC: every program, with starts, ends and moon hours that     *)
(* make ordinary, short, empty, inverted and midnight-crossing days.       *)
(***************************************************************************)
EXTENDS ScheduleEngine

MCHours == {60 * h : h \in {0, 9, 10, 14, 21, 24}}

\* <<max, trim, moon, acclimation>>: the defaults, all at their largest, no
\* night light, and an acclimating tank.
MCPercents == {<<70, 100, 4, FALSE>>, <<200, 200, 200, FALSE>>,
               <<100, 90, 0, FALSE>>, <<33, 100, 20, TRUE>>}

PlanOf(p, q, hs, he, hm) ==
    [light_program |-> p,
     max_brightness_pct |-> q[1], brightness_trim_pct |-> q[2],
     moon_brightness_pct |-> q[3], acclimation |-> q[4],
     hour_start |-> hs, hour_end |-> he, hour_moon_end |-> hm]

MCPlans == {PlanOf(p, q, hs, he, hm) :
              p \in Programs, q \in MCPercents,
              hs \in MCHours, he \in MCHours, hm \in MCHours}
=============================================================================
