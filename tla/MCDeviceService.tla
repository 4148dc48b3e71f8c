--------------------------- MODULE MCDeviceService ---------------------------
(***************************************************************************)
(* Small instances of DeviceService for TLC.  Brightness has three steps   *)
(* (0 dark, 1 half, 2 full) and, where it matters, one over-range value, 3. *)
(***************************************************************************)
EXTENDS DeviceService

MCHours == {"night", "day"}

\* Dark at night; by day full, or half when the water is too warm.
MCSchedule ==
    [x \in Profiles \X Hours \X BOOLEAN |->
       IF x[2] = "night" THEN 0
       ELSE IF x[3] \/ x[1] = "dimmed" THEN 1 ELSE Full]

\* Bad weather takes one step off the light.
MCDim == [l \in Levels |-> IF l > 0 THEN l - 1 ELSE 0]

NoField == [operation_mode |-> Absent, pump_on |-> Absent,
            weather_link |-> Absent, manual |-> Absent, profile |-> Absent]

\* One field at a time, and a whole form.
MCPatches ==
    {[NoField EXCEPT !.weather_link = TRUE],
     [NoField EXCEPT !.operation_mode = "MANUAL"],
     [operation_mode |-> "AUTO_24H", pump_on |-> TRUE, weather_link |-> FALSE,
      manual |-> 3, profile |-> DefaultProfile]}

\* For the runs about storms: switch the link to the weather, and change mode.
MCStormPatches ==
    {[NoField EXCEPT !.weather_link = TRUE],
     [NoField EXCEPT !.operation_mode = "MANUAL"]}
=============================================================================
