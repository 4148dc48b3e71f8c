---------------------------- MODULE HaBridgeProofs ----------------------------
(***************************************************************************)
(* Proofs about the Home Assistant bridge: it only sends the commands that *)
(* any client may send, so that all that is proved of DeviceService holds  *)
(* with the bridge, and the light it has set is held.                      *)
(***************************************************************************)
EXTENDS HaBridge, DeviceServiceProofs

-----------------------------------------------------------------------------
(* The bridge on top of the service *)

\* What clients send is a command, whether or not the light is theirs after it.
LEMMA OthersCommand == LightCommand \/ OtherCommand => Command
BY DEF LightCommand, OtherCommand, Command

\* Every step of the bridge is a step of the service, or none.
LEMMA BridgeStep == HaTypeOK /\ [HaNext]_<<vars, haVars>> => [Next]_vars
<1> SUFFICES ASSUME HaTypeOK, HaNext PROVE [Next]_vars
  BY DEF vars
<1>1. CASE Message
  <2>1. SetOperationMode("MANUAL") \/ (\E on \in BOOLEAN : SetPump(on)) => Command
    BY DEF Command, Modes
  <2>2. light_set # Absent /\ SetManualRgbw(light_set) => Command
    BY DEF Command, HaTypeOK
  <2>3. Busy => UNCHANGED vars
    BY DEF Busy
  <2>4. Command \/ UNCHANGED vars
    BY <1>1, <2>1, <2>2, <2>3 DEF Message, LightSetMode, LightSetLevel, PumpSet
  <2> QED BY <2>4 DEF Next
<1>2. CASE PublishStates \/ PublishDefaults
  BY <1>2 DEF PublishStates, PublishDefaults
<1>3. CASE OthersLight \/ OthersRest
  BY <1>3, OthersCommand DEF OthersLight, OthersRest, Next, Environment
<1>4. CASE HaPowerLoss \/ HaEraseNvs
  BY <1>4 DEF HaPowerLoss, HaEraseNvs, Next, Environment
<1> QED BY <1>1, <1>2, <1>3, <1>4 DEF HaNext

\* The variables of the bridge keep their types.
LEMMA BridgeType ==
    TypeOK /\ HaTypeOK /\ [HaNext]_<<vars, haVars>> => HaTypeOK'
<1> SUFFICES ASSUME TypeOK, HaTypeOK, HaNext \/ UNCHANGED <<vars, haVars>>
             PROVE  HaTypeOK'
  OBVIOUS
<1> USE DEF HaTypeOK, haVars, retained
<1>1. CASE Message
  BY <1>1 DEF Message, LightSetMode, LightSetLevel, PumpSet
<1>2. CASE PublishStates \/ PublishDefaults
  <2>1. 0 \in 0..MaxLevel
    BY ConstantsAssumption
  <2>2. out.level \in 0..MaxLevel /\ state_pump_on \in BOOLEAN
    BY DEF TypeOK, Looks
  <2> QED BY <1>2, <2>1, <2>2 DEF PublishStates, PublishDefaults
<1>3. CASE \/ OthersLight \/ OthersRest \/ HaPowerLoss \/ HaEraseNvs
           \/ UNCHANGED <<vars, haVars>>
  BY <1>3 DEF OthersLight, OthersRest, HaPowerLoss, HaEraseNvs
<1> QED BY <1>1, <1>2, <1>3 DEF HaNext

\* Before the first start the variables have their types.
LEMMA BridgeInit == HaInit => Init /\ HaTypeOK
<1>1. 0 \in 0..MaxLevel
  BY ConstantsAssumption
<1> QED BY <1>1 DEF HaInit, HaTypeOK

\* The service with the bridge implements the service: the bridge can do no
\* more than any client, so that every theorem of DeviceService is one of it.
THEOREM BridgeImplementsService == HaSpec => Spec /\ []HaTypeOK
<1>1. Init => TypeOK
  BY SceneInit DEF SceneInv
<1>2. TypeOK /\ [Next]_vars => TypeOK'
  BY TypeStep
<1>3. TypeOK /\ HaTypeOK /\ [HaNext]_<<vars, haVars>>
        => [Next]_vars /\ TypeOK' /\ HaTypeOK'
  BY <1>2, BridgeStep, BridgeType
<1> QED BY <1>1, <1>3, BridgeInit, PTL DEF HaSpec, Spec

-----------------------------------------------------------------------------
(* The light that Home Assistant has set *)

\* The inductive invariant: no scene, no storm and nothing to resume over the
\* light that is kept, in RAM while the board is on and, where saves do not fail,
\* in flash, which is all there is while it is off.
Lit(s) == /\ s.operation_mode = "MANUAL" /\ s.manual = kept
          /\ s.resume_scene_mode = "MANUAL"

Keeps ==
    kept # Absent =>
      /\ ~guest_scene_active /\ ~moon_scene_active /\ storm_left = 0
      /\ running => Lit(settings)
      /\ FlashFaults => running
      /\ ~FlashFaults => Lit(Loaded)

BridgeInv == SceneInv /\ HaTypeOK /\ (~FlashFaults => NeverDirty) /\ Keeps

\* Commands that leave the light alone keep it, in RAM.
LEMMA OtherCommandKeeps ==
    ASSUME SceneInv, OtherCommand, ~guest_scene_active, ~moon_scene_active,
           storm_left = 0, settings.operation_mode = "MANUAL",
           settings.resume_scene_mode = "MANUAL"
    PROVE  /\ ~guest_scene_active' /\ ~moon_scene_active' /\ storm_left' = 0
           /\ settings'.operation_mode = "MANUAL"
           /\ settings'.resume_scene_mode = "MANUAL"
           /\ settings'.manual = settings.manual
<1>0. settings \in Settings
  BY DEF SceneInv, TypeOK
<1>1. CASE \/ \E on \in BOOLEAN : SetPump(on)
           \/ \E i \in Slots, l \in Levels : SavePreset(i, l)
           \/ \E p \in Profiles : SetSchedule(p) \/ SetFlags(p)
  <2>1. PICK on, i, l, p : \/ SetPump(on) \/ SavePreset(i, l)
                           \/ SetSchedule(p) \/ SetFlags(p)
    BY <1>1
  <2> DEFINE pumped  == [settings EXCEPT !.pump_on = on]
             preset  == [settings EXCEPT !.presets[i] = l]
             planned == [settings EXCEPT !.profile = p]
  <2>2. \A in \in {pumped, preset, planned} :
          /\ in.operation_mode = settings.operation_mode
          /\ in.resume_scene_mode = settings.resume_scene_mode
          /\ in.manual = settings.manual
    BY <1>0 DEF Settings
  <2>3. /\ settings' \in {pumped, preset, planned}
        /\ UNCHANGED <<guest_scene_active, moon_scene_active, storm_left>>
    BY <2>1 DEF SetPump, SavePreset, SetSchedule, SetFlags, SettingsOnly, Commit,
       scenes
  <2> QED BY <2>2, <2>3
<1>2. CASE RejectedArgument \/ SceneFeed15min
  BY <1>2 DEF RejectedArgument, SceneFeed15min, scenes, stored
<1>3. CASE SceneEndSpecial
  BY <1>0, <1>3 DEF SceneEndSpecial, LeaveSpecialScenes, EnterScene, Commit,
     ResumeOf, Settings
<1>4. CASE \E patch \in Patches :
             /\ patch.operation_mode = Absent /\ patch.manual = Absent
             /\ ImportSettings(patch)
  <2>1. PICK patch \in Patches :
          /\ patch.operation_mode = Absent /\ patch.manual = Absent
          /\ ImportSettings(patch)
    BY <1>4
  <2> QED BY <1>0, <2>1 DEF ImportSettings, Patched, Given, Clamped, scenes, Settings
<1> QED BY <1>1, <1>2, <1>3, <1>4 DEF OtherCommand

\* A refresh arms no storm in manual mode.
LEMMA ManualCalm ==
    ASSUME NEW s, NEW guest, NEW moon, RefreshLiveState(s, guest, moon),
           s.operation_mode = "MANUAL"
    PROVE  UNCHANGED storm_left
BY DEF RefreshLiveState, ArmWeatherStorm, WeatherStormDue

\* Every step keeps the invariant.
LEMMA BridgeInvStep ==
    ASSUME BridgeInv, [HaNext]_<<vars, haVars>>
    PROVE  BridgeInv'
<1>0. HaTypeOK /\ SceneInv /\ TypeOK /\ settings \in Settings /\ Keeps
  BY DEF BridgeInv, SceneInv, TypeOK
<1>1. [Next]_vars /\ SceneInv' /\ HaTypeOK' /\ (~FlashFaults => NeverDirty')
  BY <1>0, BridgeStep, BridgeType, SceneStep, DirtyStep DEF BridgeInv
<1>2. ~FlashFaults /\ running' => Loaded' = settings'
  BY <1>1 DEF NeverDirty, StoreInv, CleanMeansStored
<1> SUFFICES ASSUME kept' # Absent PROVE Keeps'
  BY <1>1 DEF BridgeInv, Keeps
<1>3. ASSUME running', ~guest_scene_active', ~moon_scene_active', storm_left' = 0,
             Lit(settings)'
      PROVE  Keeps'
  BY <1>2, <1>3 DEF Keeps, Lit
<1>4. CASE LightSetLevel
  <2>1. SetManualRgbw(light_set) /\ kept' = light_set
    BY <1>4 DEF LightSetLevel
  <2>2. running'
    BY <2>1 DEF SetManualRgbw, GoManual, Sent, OutputsUntouched, world
  <2>3. Lit(settings)'
    BY <1>0, <2>1 DEF SetManualRgbw, GoManual, Commit, Lit, Settings
  <2> QED BY <1>3, <2>1, <2>2, <2>3
      DEF SetManualRgbw, GoManual, LeaveSpecialScenes, EnterScene
<1> SUFFICES ASSUME kept' = kept, ~LightSetLevel PROVE Keeps'
  BY <1>4 DEF HaNext, Message, LightSetMode, PumpSet, PublishStates,
     PublishDefaults, OthersLight, OthersRest, HaPowerLoss, HaEraseNvs, haVars
<1>5. /\ ~guest_scene_active /\ ~moon_scene_active /\ storm_left = 0
      /\ running => Lit(settings)
      /\ FlashFaults => running
      /\ ~FlashFaults => Lit(Loaded)
  BY <1>0 DEF Keeps
<1>6. ASSUME UNCHANGED <<running, settings, nvs, guest_scene_active,
                         moon_scene_active, storm_left>>
      PROVE  Keeps'
  BY <1>5, <1>6 DEF Keeps, Lit, Loaded
<1>7. CASE UNCHANGED vars
  BY <1>6, <1>7 DEF vars
<1>8. ASSUME OtherCommand PROVE Keeps'
  <2>1. running /\ running'
    BY <1>8, OthersCommand, CommandOutputs
  <2> QED BY <1>0, <1>3, <1>5, <1>8, <2>1, OtherCommandKeeps DEF Lit
<1>9. CASE \E on \in BOOLEAN : PumpSet(on)
  <2>1. (\E on \in BOOLEAN : SetPump(on)) \/ UNCHANGED vars
    BY <1>9 DEF PumpSet, Busy
  <2> QED BY <1>7, <1>8, <2>1 DEF OtherCommand
<1>10. CASE Tick
  <2>1. running /\ running' /\ settings' = settings /\ UNCHANGED scenes
    BY <1>10 DEF Tick, world
  <2>2. storm_left' = storm_left
    BY <1>5, <1>10, <2>1, ManualCalm DEF Tick, Lit
  <2> QED BY <1>3, <1>5, <2>1, <2>2 DEF scenes, Lit
<1>11. CASE Boot
  <2>1. Lit(Loaded)
    BY <1>5, <1>11 DEF Boot
  <2>2. /\ running' /\ settings' = Loaded
        /\ guest_scene_active' = FALSE /\ moon_scene_active' = FALSE
    BY <1>11, <2>1 DEF Boot, Lit
  <2>3. storm_left' = storm_left
    BY <1>11, <2>1, ManualCalm DEF Boot, Lit
  <2> QED BY <1>3, <1>5, <2>1, <2>2, <2>3 DEF Lit
<1>12. CASE StormStep \/ WeatherSetResult \/ TimeSync \/ SensorUpdate
  BY <1>6, <1>12 DEF StormStep, WeatherSetResult, TimeSync, SensorUpdate,
     stored, scenes, timers, world
<1>13. CASE Elapse
  <2>1. UNCHANGED <<running, settings, nvs, guest_scene_active, moon_scene_active>>
    BY <1>13 DEF Elapse, stored, scenes, world
  <2>2. storm_left' = 0
    BY <1>5, <1>13 DEF Elapse, Less
  <2> QED BY <1>5, <1>6, <2>1, <2>2
<1>14. CASE HaPowerLoss
  <2>1. ~FlashFaults /\ Lit(Loaded)
    BY <1>5, <1>14 DEF HaPowerLoss
  <2>2. Lit(Loaded)' /\ running' = FALSE
    BY <1>14, <2>1 DEF HaPowerLoss, PowerLoss, Loaded, Lit
  <2> QED BY <1>5, <1>14, <2>1, <2>2 DEF HaPowerLoss, PowerLoss, Keeps
<1>15. CASE (\E l \in 0..MaxLevel : LightSetMode(l)) \/ HaEraseNvs
  BY <1>15 DEF LightSetMode, HaEraseNvs
<1>16. CASE OthersLight
  BY <1>16 DEF OthersLight
<1>17. CASE PublishStates \/ PublishDefaults \/ UNCHANGED <<vars, haVars>>
  BY <1>7, <1>17 DEF PublishStates, PublishDefaults
<1> QED BY <1>7, <1>8, <1>9, <1>10, <1>11, <1>12, <1>13, <1>14, <1>15, <1>16, <1>17
        DEF HaNext, Message, OthersRest

\* A light that Home Assistant has set and nobody has changed stays set: through
\* thunder, feeding, pump commands, refusals and saves that fail; and, where
\* saves do not fail, through restarts that do not have to erase NVS.
THEOREM LightIsHeld == HaSpec => []HaHolds
<1>1. HaInit => BridgeInv
  BY StoreInit, SceneInit, BridgeInit
     DEF HaInit, Init, BridgeInv, NeverDirty, Keeps
<1>2. BridgeInv /\ [HaNext]_<<vars, haVars>> => BridgeInv'
  BY BridgeInvStep
<1>3. BridgeInv => HaHolds
  BY DEF BridgeInv, Keeps, Lit, HaHolds, Owner, OwnerOf, ResumeOf
<1> QED BY <1>1, <1>2, <1>3, PTL DEF HaSpec
===============================================================================
