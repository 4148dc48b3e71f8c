------------------------------ MODULE MCHaBridge ------------------------------
(***************************************************************************)
(* One instance of the bridge: the light is on or off, the weather brings  *)
(* thunder, other clients choose scenes and change the settings.           *)
(***************************************************************************)
EXTENDS HaBridge

MCHours    == {"day"}
MCSchedule == [x \in Profiles \X Hours \X BOOLEAN |-> Full]
MCDim      == [l \in Levels |-> l]

NoField == [operation_mode |-> Absent, pump_on |-> Absent,
            weather_link |-> Absent, manual |-> Absent, profile |-> Absent]

MCPatches == {[NoField EXCEPT !.weather_link = TRUE],
              [NoField EXCEPT !.operation_mode = "AUTO_24H"]}
=============================================================================
