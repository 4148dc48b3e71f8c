------------------------------- MODULE HaBridge -------------------------------
(***************************************************************************)
(* The Home Assistant bridge (mqtt_ha_bridge.cpp) on top of DeviceService. *)
(*                                                                         *)
(* A light/set message becomes two commands on the MQTT task, each of      *)
(* which may give up on the mutex ("busy") without anybody noticing, with  *)
(* commands of other clients, ticks and power cuts between the two.  The   *)
(* tick publishes the light and the pump as retained states, from a        *)
(* snapshot that is a default state when the mutex is busy for 200 ms, and *)
(* not at all while the broker is away; the broker keeps the last ones.    *)
(***************************************************************************)
EXTENDS DeviceService

VARIABLES
    light_set,      \* level of the light/set whose second command is to come
    light_state,    \* retained: brightness, 0 for OFF
    pump_state,     \* retained
    kept            \* history: the level Home Assistant chose, if nobody has
                    \* chosen another light since and it was not lost: with the
                    \* power where saves can fail, or with all of NVS

retained == <<light_state, pump_state>>
haVars   == <<light_set, retained, kept>>

-----------------------------------------------------------------------------
(* Messages *)

MqttTaskFree == running /\ light_set = Absent

\* A command that does not get the mutex within 500 ms changes nothing.
Busy == running /\ UNCHANGED vars

\* Mutant: a brightness is applied as it stands, in whatever mode.
LightSetLevel_SameMode ==
    /\ light_set # Absent
    /\ light_set' = Absent
    /\ \/ /\ running
          /\ SettingsOnly("set_manual_rgbw", [settings EXCEPT !.manual = light_set])
          /\ kept' = light_set
       \/ Busy /\ kept' = Absent
    /\ UNCHANGED retained

\* light/set: ON, OFF or JSON with a brightness, which is not limited to 255;
\* what is not understood counts as OFF.
LightSetMode(l) ==
    /\ MqttTaskFree
    /\ SetOperationMode("MANUAL") \/ Busy
    /\ light_set' = l
    /\ kept' = Absent
    /\ UNCHANGED retained

LightSetLevel ==
    /\ light_set # Absent
    /\ light_set' = Absent
    /\ \/ SetManualRgbw(light_set) /\ kept' = light_set
       \/ Busy /\ kept' = Absent
    /\ UNCHANGED retained

PumpSet(on) ==
    /\ MqttTaskFree
    /\ SetPump(on) \/ Busy
    /\ UNCHANGED haVars

-----------------------------------------------------------------------------
(* States for Home Assistant *)

\* Mutant: the pump is reported as it is wanted, not as it runs.
PublishStates_Wanted ==
    /\ running
    /\ light_state' = out.level /\ pump_state' = settings.pump_on
    /\ UNCHANGED <<vars, light_set, kept>>

\* on_device_tick, every 4 s.
PublishStates ==
    /\ running
    /\ light_state' = out.level /\ pump_state' = state_pump_on
    /\ UNCHANGED <<vars, light_set, kept>>

\* The snapshot gave up on the mutex: DeviceState{}.
PublishDefaults ==
    /\ running
    /\ light_state' = 0 /\ pump_state' = TRUE
    /\ UNCHANGED <<vars, light_set, kept>>

-----------------------------------------------------------------------------
(* Everybody else *)

\* Commands of other clients after which the light is theirs.
LightCommand ==
    \/ \E m \in Modes : SetOperationMode(m)
    \/ \E l \in 0..MaxLevel : SetManualRgbw(l)
    \/ \E i \in Slots : LoadPreset(i)
    \/ SceneShowGuests \/ SceneManualMoon \/ SceneLightning
    \/ \E patch \in Patches :
         /\ patch.operation_mode # Absent \/ patch.manual # Absent
         /\ ImportSettings(patch)

\* Commands that leave the choice of the light alone.
OtherCommand ==
    \/ \E on \in BOOLEAN : SetPump(on)
    \/ \E i \in Slots, l \in Levels : SavePreset(i, l)
    \/ \E p \in Profiles : SetSchedule(p) \/ SetFlags(p)
    \/ RejectedArgument
    \/ SceneFeed15min \/ SceneEndSpecial
    \/ \E patch \in Patches :
         /\ patch.operation_mode = Absent /\ patch.manual = Absent
         /\ ImportSettings(patch)

OthersLight == LightCommand /\ kept' = Absent /\ UNCHANGED <<light_set, retained>>

OthersRest ==
    /\ \/ OtherCommand \/ Tick \/ StormStep \/ WeatherSetResult \/ Boot
       \/ Elapse \/ TimeSync \/ SensorUpdate
    /\ UNCHANGED haVars

\* The second command of a light/set is lost with the power.
HaPowerLoss ==
    /\ PowerLoss
    /\ light_set' = Absent
    /\ kept' = IF FlashFaults THEN Absent ELSE kept
    /\ UNCHANGED retained

HaEraseNvs ==
    /\ EraseNvs
    /\ kept' = Absent
    /\ UNCHANGED <<light_set, retained>>

-----------------------------------------------------------------------------
HaInit ==
    /\ Init
    /\ light_set = Absent
    /\ light_state = 0 /\ pump_state = FALSE    \* the broker has had no state yet
    /\ kept = Absent

Message == \/ \E l \in 0..MaxLevel : LightSetMode(l)
           \/ LightSetLevel
           \/ \E on \in BOOLEAN : PumpSet(on)

HaNext == Message \/ PublishStates \/ PublishDefaults
          \/ OthersLight \/ OthersRest \/ HaPowerLoss \/ HaEraseNvs

HaSpec == HaInit /\ [][HaNext]_<<vars, haVars>>

(* Fairness: that of the tasks; aq_tick publishes every 4 s, and now and then *)
(* with the broker there and the mutex free.                                  *)
HaFairSpec == HaSpec /\ Fairness /\ SF_<<vars, haVars>>(PublishStates)

-----------------------------------------------------------------------------
\* The bridge's own variables keep their types.
HaTypeOK ==
    /\ light_set \in 0..MaxLevel \cup {Absent}
    /\ light_state \in 0..MaxLevel /\ pump_state \in BOOLEAN
    /\ kept \in 0..MaxLevel \cup {Absent}

\* A light that Home Assistant has set and nobody has changed stays set,
\* whichever of its two commands came through: the level, in manual mode, with no
\* scene or storm over it, through thunder, feeding, pump commands and saves that
\* fail; when saves succeed, in flash too and through restarts.
HaHolds ==
    kept # Absent =>
      /\ running => /\ settings.operation_mode = "MANUAL"
                    /\ settings.manual = kept
                    /\ Owner = "MANUAL"
      /\ ~FlashFaults => Loaded.operation_mode = "MANUAL" /\ Loaded.manual = kept

\* A light and a pump that rest are known to Home Assistant again and again,
\* although defaults are published in between and states go missing.
Rests(l, p) == running /\ out.level = l /\ state_pump_on = p

HaLearns ==
    \A l \in 0..MaxLevel, p \in BOOLEAN :
      <>[]Rests(l, p) => []<>(light_state = l /\ pump_state = p)
=============================================================================
