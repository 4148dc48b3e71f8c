------------------------- MODULE DeviceServiceProofs -------------------------
(***************************************************************************)
(* Proofs about DeviceService, for every value of its constants that its   *)
(* assumptions allow: the types; the scenes; the weather and the water,    *)
(* that is, the storms that the weather starts and the light throttled by  *)
(* overheated water; what is in flash; and the refinement of SceneArbiter. *)
(***************************************************************************)
EXTENDS DeviceService, TLAPS

-----------------------------------------------------------------------------
(* Lemmas about the operators *)

\* The factory settings are settings.
LEMMA DefaultSettingsType == DefaultSettings \in Settings
BY ConstantsAssumption DEF DefaultSettings, Settings, Modes, Resume

\* The mark of a mode is a scene to resume.
LEMMA ResumeOfType == ASSUME NEW m PROVE ResumeOf(m) \in {"AUTO", "MANUAL"}
BY DEF ResumeOf

\* What a boot loads are settings.
LEMMA LoadedType == ASSUME TypeOK PROVE Loaded \in Settings
BY DefaultSettingsType DEF TypeOK, Loaded

\* Saving, or trying to, leaves settings or nothing in flash.
LEMMA SaveType ==
    ASSUME TypeOK, NEW in \in Settings, NEW ok \in BOOLEAN, Save(in, ok)
    PROVE  nvs' \in Settings \cup {Absent}
BY DEF TypeOK, Save

\* So does persist_if_dirty, which also keeps the flag a flag.
LEMMA PersistType ==
    ASSUME TypeOK, NEW in \in Settings, NEW d \in BOOLEAN, PersistIfDirty(in, d)
    PROVE  nvs' \in Settings \cup {Absent} /\ dirty_settings' \in BOOLEAN
<1>1. CASE d
  <2>1. PICK ok \in BOOLEAN : Save(in, ok) /\ dirty_settings' = ~ok
    BY <1>1 DEF PersistIfDirty
  <2> QED BY <2>1, SaveType
<1>2. CASE ~d
  BY <1>2 DEF PersistIfDirty, TypeOK
<1> QED BY <1>1, <1>2

\* So does a command that assigns its settings and saves them.
LEMMA CommitType ==
    ASSUME TypeOK, NEW in \in Settings, Commit(in)
    PROVE  /\ settings' \in Settings
           /\ nvs' \in Settings \cup {Absent} /\ dirty_settings' \in BOOLEAN
BY PersistType DEF Commit

\* Painting a look leaves a look in the report and on the channels.
LEMMA PaintType ==
    ASSUME NEW look \in Looks, Paint(look)
    PROVE  out' \in Looks /\ led' \in Looks
BY ConstantsAssumption DEF Paint, Emitted, Looks, Palettes, Dark, Look

\* A palette and a level make a look.
LEMMA LookType ==
    ASSUME NEW p \in Palettes, NEW l \in 0..MaxLevel
    PROVE  Look(p, l) \in Looks
BY DEF Look, Looks

\* The dark lamp is a look.
LEMMA DarkType == Dark \in Looks
BY ConstantsAssumption DEF Dark, Looks, Palettes

\* The day plan, dimmed by the weather or not, gives a level the lamp has.
LEMMA AutoLevelType ==
    ASSUME NEW s \in Settings, NEW hour \in Hours, NEW t \in BOOLEAN
    PROVE  AutoLevel(s, hour, t) \in Levels
<1>1. s.profile \in Profiles
  BY DEF Settings
<1>2. <<s.profile, hour, t>> \in Profiles \X Hours \X BOOLEAN
  BY <1>1
<1>3. Schedule[<<s.profile, hour, t>>] \in Levels
  BY <1>2, ConstantsAssumption
<1> QED BY <1>3, ConstantsAssumption DEF AutoLevel

\* Automatic light, waiting for SNTP or not, keeps the types of the light.
LEMMA ApplyAutoLightType ==
    ASSUME TypeOK, NEW s \in Settings, NEW t \in BOOLEAN, ApplyAutoLight(s, t)
    PROVE  out' \in Looks /\ led' \in Looks
<1>1. CASE WaitForSntp
  <2>1. led' = Dark /\ out' = Look(out.palette, 0)
    BY <1>1 DEF ApplyAutoLight
  <2>2. Look(out.palette, 0) \in Looks
    BY ConstantsAssumption DEF TypeOK, Looks, Look
  <2> QED BY <2>1, <2>2, DarkType
<1>2. CASE ~WaitForSntp
  <2>1. PICK hour \in Hours :
          LET l == AutoLevel(s, hour, t)
          IN  Paint(IF l = 0 THEN Dark ELSE Look("schedule", l))
    BY <1>2, ConstantsAssumption DEF ApplyAutoLight
  <2> DEFINE l == AutoLevel(s, hour, t)
  <2>2. l \in 0..MaxLevel
    BY AutoLevelType, ConstantsAssumption DEF Levels
  <2>3. (IF l = 0 THEN Dark ELSE Look("schedule", l)) \in Looks
    BY <2>2, DarkType, LookType DEF Palettes
  <2> QED BY <2>1, <2>3, PaintType
<1> QED BY <1>1, <1>2

\* A refresh keeps the types of all it writes.
LEMMA RefreshType ==
    ASSUME TypeOK, NEW s \in Settings, NEW guest \in BOOLEAN, NEW moon \in BOOLEAN,
           RefreshLiveState(s, guest, moon)
    PROVE  /\ thermal_throttle' \in BOOLEAN
           /\ storm_left' \in 0..StormTime
           /\ weather_storm_left' \in 0..GapMax
           /\ scene_mode' \in Scenes
           /\ out' \in Looks /\ led' \in Looks
           /\ state_pump_on' \in BOOLEAN /\ pump' \in BOOLEAN
<1>1. thermal_throttle' \in BOOLEAN
  BY Zenon DEF RefreshLiveState, Throttle, TypeOK
<1>2. storm_left' \in 0..StormTime /\ weather_storm_left' \in 0..GapMax
  BY TimesAssumption DEF RefreshLiveState, ArmWeatherStorm, TypeOK
<1>3. s.pump_on \in BOOLEAN /\ s.manual \in 0..MaxLevel
  BY DEF Settings
<1>4. pump' \in BOOLEAN /\ state_pump_on' \in BOOLEAN
  BY <1>3 DEF RefreshLiveState
<1> DEFINE owner == OwnerOf(s, guest, moon, storm_left' > 0)
<1>5. owner \in {"SHOW_GUESTS", "STORM", "MOON_TEMP", "AUTO", "MANUAL"}
  BY ResumeOfType DEF OwnerOf
<1>6. /\ scene_mode' = IF owner \in {"AUTO", "MANUAL"} /\ feed_left > 0
                       THEN "FEED" ELSE owner
      /\ PaintOwner(owner, s, thermal_throttle')
  BY DEF RefreshLiveState, PaintScene
<1>7. scene_mode' \in Scenes
  BY <1>5, <1>6 DEF Scenes, Resume
<1>8. out' \in Looks /\ led' \in Looks
  <2>1. /\ Look("guests", Full) \in Looks
        /\ Look("moon", MoonLevel) \in Looks
        /\ Look("manual", s.manual) \in Looks
    BY <1>3, LookType, ConstantsAssumption DEF Palettes
  <2>2. CASE ApplyAutoLight(s, thermal_throttle')
    BY <2>2, <1>1, ApplyAutoLightType
  <2>3. CASE UNCHANGED <<out, led>>
    BY <2>3 DEF TypeOK
  <2>4. CASE \/ Paint(Look("guests", Full)) \/ Paint(Look("moon", MoonLevel))
             \/ Paint(Look("manual", s.manual))
    BY <2>4, <2>1, PaintType
  <2> QED BY <1>6, <2>2, <2>3, <2>4 DEF PaintOwner
<1> QED BY <1>1, <1>2, <1>4, <1>7, <1>8

-----------------------------------------------------------------------------
(* The settings every command computes *)

\* set_operation_mode computes settings.
LEMMA ModeSettings ==
    ASSUME NEW s \in Settings, NEW m \in Modes, NEW r \in Resume
    PROVE  [s EXCEPT !.operation_mode = m, !.resume_scene_mode = r] \in Settings
BY DEF Settings

\* A scene command computes settings.
LEMMA ResumeSettings ==
    ASSUME NEW s \in Settings, NEW r \in Resume
    PROVE  [s EXCEPT !.resume_scene_mode = r] \in Settings
BY DEF Settings

\* set_manual_rgbw and load_preset compute settings.
LEMMA ManualSettings ==
    ASSUME NEW s \in Settings, NEW l \in 0..MaxLevel
    PROVE  [s EXCEPT !.manual = l, !.operation_mode = "MANUAL",
                     !.resume_scene_mode = "MANUAL"] \in Settings
BY DEF Settings, Modes, Resume

\* save_preset computes settings.
LEMMA PresetSettings ==
    ASSUME NEW s \in Settings, NEW i \in Slots, NEW l \in Levels
    PROVE  [s EXCEPT !.presets[i] = l] \in Settings
BY DEF Settings

\* set_settings computes settings from any data object the clients send.
LEMMA PatchedType ==
    ASSUME NEW s \in Settings, NEW patch \in Patches
    PROVE  Patched(s, patch) \in Settings
<1>1. patch \in PatchType
  BY ConstantsAssumption
<1>2. /\ Given(patch.operation_mode, s.operation_mode) \in Modes
      /\ Given(patch.pump_on, s.pump_on) \in BOOLEAN
      /\ Given(patch.weather_link, s.weather_link) \in BOOLEAN
      /\ Given(patch.profile, s.profile) \in Profiles
  BY <1>1, Zenon DEF Given, PatchType, Settings
<1>3. Given(Clamped(patch.manual), s.manual) \in 0..MaxLevel
  BY <1>1, ConstantsAssumption DEF Given, Clamped, PatchType, Settings
<1>4. (IF patch.operation_mode = Absent THEN s.resume_scene_mode
       ELSE ResumeOf(patch.operation_mode)) \in Resume
  BY ResumeOfType DEF Settings, Resume
<1> QED BY <1>2, <1>3, <1>4 DEF Patched, Settings

-----------------------------------------------------------------------------
(* Type correctness *)

\* Every command keeps the types.
LEMMA CommandType == ASSUME TypeOK, Command PROVE TypeOK'
<1> USE DEF OutputsUntouched, scenes, reported, hardware, world, stored
<1> USE DEF LeaveSpecialScenes, EnterScene
<1>0. 0 \in 0..StormTime /\ 0 \in 0..FeedTime /\ settings \in Settings
  BY TimesAssumption DEF TypeOK
<1>1. CASE \E m \in Modes : SetOperationMode(m)
  <2>1. PICK m \in Modes : SetOperationMode(m)
    BY <1>1
  <2>2. [settings EXCEPT !.operation_mode = m, !.resume_scene_mode = ResumeOf(m)]
          \in Settings
    BY <1>0, ModeSettings, ResumeOfType DEF Resume
  <2> QED BY <2>1, <2>2, <1>0, CommitType DEF SetOperationMode, TypeOK
<1>2. ASSUME NEW l \in 0..MaxLevel, GoManual(l) PROVE TypeOK'
  BY <1>0, <1>2, ManualSettings, CommitType DEF GoManual, TypeOK
<1>3. CASE \E l \in 0..MaxLevel : SetManualRgbw(l)
  BY <1>2, <1>3 DEF SetManualRgbw
<1>4. CASE \E i \in Slots : LoadPreset(i)
  <2>1. PICK i \in Slots : LoadPreset(i)
    BY <1>4
  <2>2. settings.presets[i] \in 0..MaxLevel
    BY <1>0, <2>1, ConstantsAssumption DEF LoadPreset, Settings, Levels
  <2> QED BY <2>1, <2>2, <1>2 DEF LoadPreset
<1>5. ASSUME NEW name, NEW in \in Settings, SettingsOnly(name, in) PROVE TypeOK'
  BY <1>5, CommitType DEF SettingsOnly, TypeOK
<1>6. CASE \E on \in BOOLEAN : SetPump(on)
  <2>1. PICK on \in BOOLEAN : SetPump(on)
    BY <1>6
  <2>2. [settings EXCEPT !.pump_on = on] \in Settings
    BY <1>0 DEF Settings
  <2> QED BY <2>1, <2>2, <1>5 DEF SetPump
<1>7. CASE \E i \in Slots, l \in Levels : SavePreset(i, l)
  BY <1>0, <1>5, <1>7, PresetSettings DEF SavePreset
<1>8. CASE \E p \in Profiles : SetSchedule(p) \/ SetFlags(p)
  <2>1. PICK p \in Profiles : SetSchedule(p) \/ SetFlags(p)
    BY <1>8
  <2>2. [settings EXCEPT !.profile = p] \in Settings
    BY <1>0 DEF Settings
  <2> QED BY <2>1, <2>2, <1>5 DEF SetSchedule, SetFlags
<1>9. CASE RejectedArgument
  BY <1>9, PersistType DEF RejectedArgument, TypeOK
<1>10. CASE SceneShowGuests
  BY <1>10, <1>0, ResumeSettings, CommitType DEF SceneShowGuests, TypeOK, Resume
<1>11. CASE SceneManualMoon
  BY <1>11, <1>0, ResumeSettings, CommitType DEF SceneManualMoon, TypeOK, Resume
<1>12. CASE SceneFeed15min
  <2>1. feed_left' \in 0..FeedTime
    BY <1>12, TimesAssumption DEF SceneFeed15min
  <2> QED BY <1>12, <2>1 DEF SceneFeed15min, TypeOK
<1>13. CASE SceneLightning
  <2>1. storm_left' \in 0..StormTime
    BY <1>13, TimesAssumption DEF SceneLightning
  <2> QED BY <1>13, <2>1 DEF SceneLightning, TypeOK
<1>14. CASE SceneEndSpecial
  <2>1. [settings EXCEPT !.resume_scene_mode = ResumeOf(settings.operation_mode)]
          \in Settings
    BY <1>0, ResumeSettings, ResumeOfType DEF Resume
  <2> QED BY <1>14, <2>1, <1>0, CommitType DEF SceneEndSpecial, TypeOK
<1>15. CASE \E patch \in Patches : ImportSettings(patch)
  <2>1. PICK patch \in Patches : ImportSettings(patch)
    BY <1>15
  <2>2. settings' \in Settings
    BY <2>1, <1>0, PatchedType DEF ImportSettings
  <2>3. nvs' \in Settings \cup {Absent} /\ dirty_settings' \in BOOLEAN
    BY <2>1, <2>2, SaveType DEF ImportSettings, TypeOK
  <2>4. /\ guest_scene_active' \in BOOLEAN /\ moon_scene_active' \in BOOLEAN
        /\ storm_left' \in 0..StormTime
        /\ scene_mode' \in Scenes
    BY <2>1, <1>0, ResumeOfType DEF ImportSettings, TypeOK, Scenes, Resume
  <2> QED BY <2>1, <2>2, <2>3, <2>4 DEF ImportSettings, TypeOK
<1> QED BY <1>1, <1>3, <1>4, <1>6, <1>7, <1>8, <1>9, <1>10, <1>11, <1>12, <1>13,
           <1>14, <1>15 DEF Command

\* The constructor keeps the types.
LEMMA BootType == ASSUME TypeOK, Boot PROVE TypeOK'
<1>1. Loaded \in Settings
  BY LoadedType
<1>2. /\ guest_scene_active' \in BOOLEAN /\ moon_scene_active' \in BOOLEAN
      /\ RefreshLiveState(Loaded, guest_scene_active', moon_scene_active')
  BY DEF Boot
<1> QED BY <1>1, <1>2, RefreshType DEF Boot, TypeOK

\* aq_tick keeps the types.
LEMMA TickType == ASSUME TypeOK, Tick PROVE TypeOK'
<1>1. /\ settings \in Settings /\ dirty_settings \in BOOLEAN
      /\ guest_scene_active \in BOOLEAN /\ moon_scene_active \in BOOLEAN
  BY DEF TypeOK
<1>2. nvs' \in Settings \cup {Absent} /\ dirty_settings' \in BOOLEAN
  BY <1>1, PersistType DEF Tick
<1> QED BY <1>1, <1>2, RefreshType DEF Tick, TypeOK, scenes, world

\* Every step keeps the types.
LEMMA TypeStep == TypeOK /\ [Next]_vars => TypeOK'
<1> SUFFICES ASSUME TypeOK, [Next]_vars PROVE TypeOK'
  OBVIOUS
<1> USE DEF scenes, reported, hardware, world, stored, timers
<1>1. CASE Command
  BY <1>1, CommandType
<1>2. CASE Tick
  BY <1>2, TickType
<1>3. CASE StormStep
  <2>1. PICK l \in 1..Full : Paint(Look("storm", l))
    BY <1>3 DEF StormStep
  <2>2. out' \in Looks /\ led' \in Looks
    BY <2>1, LookType, PaintType, ConstantsAssumption DEF Palettes
  <2> QED BY <1>3, <2>2 DEF StormStep, TypeOK, Scenes
<1>4. CASE WeatherSetResult
  BY <1>4 DEF WeatherSetResult, TypeOK
<1>5. CASE Boot
  BY <1>5, BootType
<1>6. CASE Elapse
  BY <1>6, TimesAssumption DEF Elapse, TypeOK, Less
<1>7. CASE TimeSync
  BY <1>7 DEF TimeSync, TypeOK
<1>8. CASE SensorUpdate
  BY <1>8 DEF SensorUpdate, TypeOK
<1>9. CASE PowerLoss
  <2>1. /\ settings' \in Settings /\ out' \in Looks /\ led' \in Looks
    BY <1>9, DefaultSettingsType, DarkType DEF PowerLoss
  <2>2. /\ feed_left' \in 0..FeedTime /\ storm_left' \in 0..StormTime
        /\ weather_storm_left' \in 0..GapMax /\ grace_left' \in 0..SntpGrace
    BY <1>9, TimesAssumption DEF PowerLoss
  <2>3. scene_mode' \in Scenes /\ nvs' \in Settings \cup {Absent}
    BY <1>9 DEF PowerLoss, Scenes, Resume, TypeOK
  <2> QED BY <1>9, <2>1, <2>2, <2>3 DEF PowerLoss, TypeOK
<1>10. CASE UNCHANGED vars
  BY <1>10 DEF vars, TypeOK
<1>11. CASE EraseNvs
  BY <1>11 DEF EraseNvs, TypeOK
<1> QED BY <1>1, <1>2, <1>3, <1>4, <1>5, <1>6, <1>7, <1>8, <1>9, <1>10, <1>11
        DEF Next, Environment

\* The first state is well typed.
LEMMA TypeInit == Init => TypeOK
<1> SUFFICES ASSUME Init PROVE TypeOK
  OBVIOUS
<1>1. /\ settings \in Settings /\ nvs \in Settings \cup {Absent}
      /\ out \in Looks /\ led \in Looks
  BY DefaultSettingsType, DarkType DEF Init
<1>2. /\ feed_left \in 0..FeedTime /\ storm_left \in 0..StormTime
      /\ weather_storm_left \in 0..GapMax /\ grace_left \in 0..SntpGrace
  BY TimesAssumption DEF Init
<1>3. scene_mode \in Scenes
  BY DEF Init, Scenes, Resume
<1> QED BY <1>1, <1>2, <1>3, Zenon DEF Init, TypeOK

\* Every reachable state is well typed.
THEOREM TypeCorrect == Spec => []TypeOK
BY TypeInit, TypeStep, PTL DEF Spec

-----------------------------------------------------------------------------

(* The inductive invariant.  A boot takes its scene from the flash, so what *)
(* the settings in RAM say of the resume mark must hold of the blob as well *)
(* (MarksAgree), and it starts from the members' initial values (OffIsFresh).*)
(* A tick under a storm writes neither the light nor the report of it, so   *)
(* the two have to agree in every state, also with the power off.           *)

AgreesWithMode(s) ==
    s.resume_scene_mode \in {"AUTO", "MANUAL"} =>
        s.resume_scene_mode = ResumeOf(s.operation_mode)

MarksAgree == AgreesWithMode(settings) /\ AgreesWithMode(Loaded)

FlagsMarked ==
    /\ guest_scene_active => settings.resume_scene_mode = "SHOW_GUESTS"
    /\ moon_scene_active => settings.resume_scene_mode = "MOON_TEMP"

OffIsFresh ==
    ~running => /\ ~guest_scene_active /\ ~moon_scene_active
                /\ storm_left = 0 /\ ~dirty_settings
                /\ weather = Absent

LightHonest == led = Emitted(out)

SceneInv ==
    /\ TypeOK
    /\ SceneExclusive
    /\ MarksAgree
    /\ FlagsMarked
    /\ OffIsFresh
    /\ LightHonest
    /\ running => pump = state_pump_on

-----------------------------------------------------------------------------
(* What a save leaves for the next boot *)

\* A boot after a save finds what it would have found before, or what was
\* being saved, whether or not the save reported success.
LEMMA SaveLoaded ==
    ASSUME NEW in \in Settings, NEW ok \in BOOLEAN, Save(in, ok)
    PROVE  Loaded' \in {Loaded, in}
BY AbsentAssumption DEF Save, Loaded

\* The same of persist_if_dirty, with whatever dirty flag it is called.
LEMMA PersistLoaded ==
    ASSUME NEW in \in Settings, NEW d \in BOOLEAN, PersistIfDirty(in, d)
    PROVE  Loaded' \in {Loaded, in}
<1>1. CASE d
  <2>1. PICK ok \in BOOLEAN : Save(in, ok)
    BY <1>1 DEF PersistIfDirty
  <2> QED BY <2>1, SaveLoaded
<1>2. CASE ~d
  BY <1>2 DEF PersistIfDirty, Loaded
<1> QED BY <1>1, <1>2

\* The same of a command that assigns its settings and saves them.
LEMMA CommitLoaded ==
    ASSUME NEW in \in Settings, Commit(in)
    PROVE  settings' = in /\ Loaded' \in {Loaded, settings'}
BY PersistLoaded DEF Commit

-----------------------------------------------------------------------------
(* Commands *)

\* No command touches the light, the pump, their report or the power.
LEMMA CommandOutputs ==
    ASSUME Command
    PROVE  running /\ UNCHANGED <<running, weather, out, led, pump, state_pump_on>>
BY DEF Command, SetOperationMode, SetManualRgbw, GoManual, SetPump, SavePreset,
       LoadPreset, SetSchedule, SetFlags, RejectedArgument, SceneShowGuests,
       SceneManualMoon, SceneFeed15min, SceneLightning, SceneEndSpecial,
       ImportSettings, SettingsOnly, Sent, OutputsUntouched, reported, hardware,
       world

\* Every command leaves at most one special scene, marks it in the settings,
\* and saves these settings or nothing.
LEMMA CommandMarks ==
    ASSUME SceneInv, Command
    PROVE  /\ SceneExclusive'
           /\ AgreesWithMode(settings')
           /\ FlagsMarked'
           /\ Loaded' \in {Loaded, settings'}
<1> USE DEF SceneExclusive, FlagsMarked, EnterScene, LeaveSpecialScenes
<1>0. settings \in Settings /\ dirty_settings \in BOOLEAN
  BY DEF SceneInv, TypeOK
<1>1. CASE \E m \in Modes : SetOperationMode(m)
  <2>1. PICK m \in Modes : SetOperationMode(m)
    BY <1>1
  <2> DEFINE in == [settings EXCEPT !.operation_mode = m,
                                    !.resume_scene_mode = ResumeOf(m)]
  <2>2. in \in Settings
    BY <1>0, ModeSettings, ResumeOfType DEF Resume
  <2>3. settings' = in /\ Loaded' \in {Loaded, settings'}
    BY <2>1, <2>2, CommitLoaded DEF SetOperationMode
  <2>4. AgreesWithMode(in)
    BY <1>0 DEF AgreesWithMode, Settings
  <2> QED BY <2>1, <2>3, <2>4 DEF SetOperationMode
<1>2. ASSUME NEW l \in 0..MaxLevel, GoManual(l)
      PROVE  /\ SceneExclusive' /\ AgreesWithMode(settings') /\ FlagsMarked'
             /\ Loaded' \in {Loaded, settings'}
  <2> DEFINE in == [settings EXCEPT !.manual = l, !.operation_mode = "MANUAL",
                                    !.resume_scene_mode = "MANUAL"]
  <2>1. settings' = in /\ Loaded' \in {Loaded, settings'}
    BY <1>0, <1>2, ManualSettings, CommitLoaded DEF GoManual
  <2>2. AgreesWithMode(in)
    BY <1>0 DEF AgreesWithMode, ResumeOf, Settings
  <2> QED BY <1>2, <2>1, <2>2 DEF GoManual
<1>3. CASE \E l \in 0..MaxLevel : SetManualRgbw(l)
  BY <1>2, <1>3 DEF SetManualRgbw
<1>4. CASE \E i \in Slots : LoadPreset(i)
  <2>1. PICK i \in Slots : LoadPreset(i)
    BY <1>4
  <2>2. settings.presets[i] \in 0..MaxLevel
    BY <1>0, <2>1, ConstantsAssumption DEF LoadPreset, Settings, Levels
  <2> QED BY <1>2, <2>1, <2>2 DEF LoadPreset
<1>5. ASSUME NEW name, NEW in \in Settings, SettingsOnly(name, in),
             in.operation_mode = settings.operation_mode,
             in.resume_scene_mode = settings.resume_scene_mode
      PROVE  /\ SceneExclusive' /\ AgreesWithMode(settings') /\ FlagsMarked'
             /\ Loaded' \in {Loaded, settings'}
  <2>1. settings' = in /\ Loaded' \in {Loaded, settings'}
    BY <1>5, CommitLoaded DEF SettingsOnly
  <2> QED BY <1>5, <2>1 DEF SettingsOnly, scenes, SceneInv, MarksAgree, AgreesWithMode
<1>6. CASE \E on \in BOOLEAN : SetPump(on)
  <2>1. PICK on \in BOOLEAN : SetPump(on)
    BY <1>6
  <2> DEFINE in == [settings EXCEPT !.pump_on = on]
  <2>2. /\ in \in Settings
        /\ in.operation_mode = settings.operation_mode
        /\ in.resume_scene_mode = settings.resume_scene_mode
    BY <1>0 DEF Settings
  <2> QED BY <1>5, <2>1, <2>2 DEF SetPump
<1>7. CASE \E i \in Slots, l \in Levels : SavePreset(i, l)
  <2>1. PICK i \in Slots, l \in Levels : SavePreset(i, l)
    BY <1>7
  <2> DEFINE in == [settings EXCEPT !.presets[i] = l]
  <2>2. /\ in \in Settings
        /\ in.operation_mode = settings.operation_mode
        /\ in.resume_scene_mode = settings.resume_scene_mode
    BY <1>0 DEF Settings
  <2> QED BY <1>5, <2>1, <2>2 DEF SavePreset
<1>8. CASE \E p \in Profiles : SetSchedule(p) \/ SetFlags(p)
  <2>1. PICK p \in Profiles : SetSchedule(p) \/ SetFlags(p)
    BY <1>8
  <2> DEFINE in == [settings EXCEPT !.profile = p]
  <2>2. /\ in \in Settings
        /\ in.operation_mode = settings.operation_mode
        /\ in.resume_scene_mode = settings.resume_scene_mode
    BY <1>0 DEF Settings
  <2> QED BY <1>5, <2>1, <2>2 DEF SetSchedule, SetFlags
<1>9. CASE RejectedArgument
  BY <1>0, <1>9, PersistLoaded
     DEF RejectedArgument, scenes, SceneInv, MarksAgree, AgreesWithMode
<1>10. CASE SceneShowGuests \/ SceneManualMoon
  <2>1. PICK r \in {"SHOW_GUESTS", "MOON_TEMP"} :
          /\ Commit([settings EXCEPT !.resume_scene_mode = r])
          /\ EnterScene(r = "SHOW_GUESTS", r = "MOON_TEMP")
    BY <1>10 DEF SceneShowGuests, SceneManualMoon
  <2> DEFINE in == [settings EXCEPT !.resume_scene_mode = r]
  <2>2. in \in Settings /\ in.resume_scene_mode = r
    BY <1>0, ResumeSettings DEF Settings, Resume
  <2>3. settings' = in /\ Loaded' \in {Loaded, settings'}
    BY <2>1, <2>2, CommitLoaded
  <2> QED BY <2>1, <2>2, <2>3 DEF AgreesWithMode
<1>11. CASE SceneFeed15min
  BY <1>11 DEF SceneFeed15min, stored, scenes, SceneInv, MarksAgree, AgreesWithMode,
     Loaded
<1>12. CASE SceneLightning
  BY <1>12 DEF SceneLightning, stored, SceneInv, MarksAgree, AgreesWithMode, Loaded
<1>13. CASE SceneEndSpecial
  <2> DEFINE in == [settings EXCEPT
                      !.resume_scene_mode = ResumeOf(settings.operation_mode)]
  <2>1. in \in Settings
    BY <1>0, ResumeSettings, ResumeOfType DEF Resume
  <2>2. AgreesWithMode(in)
    BY <1>0 DEF AgreesWithMode, Settings
  <2>3. settings' = in /\ Loaded' \in {Loaded, settings'}
    BY <1>13, <2>1, CommitLoaded DEF SceneEndSpecial
  <2> QED BY <1>13, <2>2, <2>3 DEF SceneEndSpecial
<1>14. CASE \E patch \in Patches : ImportSettings(patch)
  <2>1. PICK patch \in Patches : ImportSettings(patch)
    BY <1>14
  <2> DEFINE in == Patched(settings, patch)
  <2>2. settings' = in /\ in \in Settings
    BY <1>0, <2>1, PatchedType DEF ImportSettings
  <2>3. Loaded' \in {Loaded, settings'}
    BY <2>1, <2>2, SaveLoaded DEF ImportSettings, Loaded
  <2>4. CASE patch.operation_mode = Absent
    <3>1. /\ in.operation_mode = settings.operation_mode
          /\ in.resume_scene_mode = settings.resume_scene_mode
      BY <1>0, <2>4 DEF Patched, Given, Settings
    <3> QED BY <2>1, <2>2, <2>3, <2>4, <3>1
            DEF ImportSettings, scenes, SceneInv, MarksAgree, AgreesWithMode
  <2>5. CASE patch.operation_mode # Absent
    <3>1. AgreesWithMode(in)
      BY <1>0, <2>5 DEF Patched, Given, Settings, AgreesWithMode
    <3> QED BY <2>1, <2>2, <2>3, <2>5, <3>1 DEF ImportSettings
  <2> QED BY <2>4, <2>5
<1> QED BY <1>1, <1>3, <1>4, <1>6, <1>7, <1>8, <1>9, <1>10, <1>11, <1>12, <1>13,
           <1>14 DEF Command

\* Every command keeps the scene invariant.
LEMMA CommandScene == ASSUME SceneInv, Command PROVE SceneInv'
<1>1. TypeOK'
  BY CommandType DEF SceneInv
<1>2. MarksAgree'
  BY CommandMarks DEF MarksAgree, SceneInv
<1>3. running' /\ OffIsFresh' /\ LightHonest' /\ pump' = state_pump_on'
  BY CommandOutputs DEF SceneInv, OffIsFresh, LightHonest, Emitted
<1> QED BY <1>1, <1>2, <1>3, CommandMarks DEF SceneInv

-----------------------------------------------------------------------------
(* The refresh of aq_tick and of the constructor *)

\* The light is reported as it is, whichever branch of the refresh is taken.
LEMMA PaintHonest == ASSUME NEW look, Paint(look) PROVE led' = Emitted(out')
BY DEF Paint

\* A refresh of a board with an honest report leaves an honest report.
LEMMA RefreshHonest ==
    ASSUME LightHonest, NEW s, NEW guest, NEW moon, RefreshLiveState(s, guest, moon)
    PROVE  led' = Emitted(out') /\ pump' = state_pump_on'
<1> DEFINE owner == OwnerOf(s, guest, moon, storm_left' > 0)
<1>1. PaintOwner(owner, s, thermal_throttle') /\ pump' = state_pump_on'
  BY DEF RefreshLiveState, PaintScene
<1>2. ASSUME ApplyAutoLight(s, thermal_throttle') PROVE led' = Emitted(out')
  <2>1. CASE led' = Dark /\ out' = Look(out.palette, 0)
    BY <2>1 DEF Emitted, Look
  <2> QED BY <1>2, <2>1, PaintHonest DEF ApplyAutoLight
<1>3. ASSUME UNCHANGED <<out, led>> PROVE led' = Emitted(out')
  BY <1>3 DEF LightHonest
<1> QED BY <1>1, <1>2, <1>3, PaintHonest DEF PaintOwner

\* No storm starts under the guest scene.
LEMMA RefreshExclusive ==
    ASSUME NEW s, NEW guest, NEW moon, RefreshLiveState(s, guest, moon), guest
    PROVE  storm_left' = storm_left
BY DEF RefreshLiveState, ArmWeatherStorm, WeatherStormDue

\* aq_tick keeps the scene invariant.
LEMMA TickScene == ASSUME SceneInv, Tick PROVE SceneInv'
<1>1. TypeOK'
  BY TickType DEF SceneInv
<1>2. RefreshLiveState(settings, guest_scene_active, moon_scene_active)
  BY DEF Tick
<1>3. LightHonest' /\ pump' = state_pump_on'
  BY <1>2, RefreshHonest DEF SceneInv, LightHonest, Emitted
<1>4. SceneExclusive' /\ FlagsMarked' /\ OffIsFresh'
  BY <1>2, RefreshExclusive
     DEF Tick, SceneInv, SceneExclusive, FlagsMarked, OffIsFresh, scenes, world
<1>5. settings' = settings /\ Loaded' \in {Loaded, settings'}
  <2>1. settings \in Settings /\ dirty_settings \in BOOLEAN
    BY DEF SceneInv, TypeOK
  <2> QED BY <2>1, PersistLoaded DEF Tick
<1>6. MarksAgree'
  BY <1>5 DEF SceneInv, MarksAgree, AgreesWithMode
<1> QED BY <1>1, <1>3, <1>4, <1>6 DEF SceneInv

\* The constructor, which resumes the scene in flash, keeps the invariant.
LEMMA BootScene == ASSUME SceneInv, Boot PROVE SceneInv'
<1>1. TypeOK'
  BY BootType DEF SceneInv
<1>2. RefreshLiveState(Loaded, guest_scene_active', moon_scene_active')
  BY DEF Boot
<1>3. LightHonest' /\ pump' = state_pump_on'
  BY <1>2, RefreshHonest DEF SceneInv, LightHonest, Emitted
<1>4. settings' = Loaded /\ Loaded' = Loaded
  BY DEF Boot, Loaded
<1>5. SceneExclusive'
  BY <1>2, RefreshExclusive DEF Boot, SceneInv, OffIsFresh, SceneExclusive
<1>6. FlagsMarked' /\ OffIsFresh'
  BY <1>4 DEF Boot, FlagsMarked, OffIsFresh
<1>7. MarksAgree'
  BY <1>4 DEF SceneInv, MarksAgree, AgreesWithMode
<1> QED BY <1>1, <1>3, <1>5, <1>6, <1>7 DEF SceneInv

-----------------------------------------------------------------------------
(* The invariant *)

\* The factory settings resume the mode they hold.
LEMMA FactoryMark == AgreesWithMode(DefaultSettings)
BY DEF AgreesWithMode, DefaultSettings, ResumeOf

\* A board never powered before satisfies the invariant.
LEMMA SceneInit == Init => SceneInv
<1> SUFFICES ASSUME Init PROVE SceneInv
  OBVIOUS
<1>1. settings = DefaultSettings /\ Loaded = DefaultSettings
  BY DEF Init, Loaded
<1>2. MarksAgree
  BY <1>1, FactoryMark DEF MarksAgree
<1>3. LightHonest
  BY DEF Init, LightHonest, Emitted, Dark
<1> QED BY <1>2, <1>3, TypeInit
        DEF Init, SceneInv, SceneExclusive, FlagsMarked, OffIsFresh

\* Every step keeps the invariant.
LEMMA SceneStep == SceneInv /\ [Next]_vars => SceneInv'
<1> SUFFICES ASSUME SceneInv, [Next]_vars PROVE SceneInv'
  OBVIOUS
<1>0. TypeOK'
  BY TypeStep DEF SceneInv
<1> USE DEF scenes, reported, hardware, world, stored, timers
<1>1. CASE Command
  BY <1>1, CommandScene
<1>2. CASE Tick
  BY <1>2, TickScene
<1>3. CASE StormStep
  <2>1. LightHonest'
    BY <1>3, PaintHonest DEF StormStep, LightHonest, Emitted
  <2> QED BY <1>0, <1>3, <2>1
          DEF StormStep, SceneInv, SceneExclusive, MarksAgree, AgreesWithMode,
              FlagsMarked, OffIsFresh, Loaded
<1>4. CASE WeatherSetResult \/ TimeSync \/ SensorUpdate \/ UNCHANGED vars
  BY <1>0, <1>4
     DEF WeatherSetResult, TimeSync, SensorUpdate, vars, SceneInv, SceneExclusive,
         MarksAgree, AgreesWithMode, FlagsMarked, OffIsFresh, LightHonest, Emitted,
         Loaded
<1>5. CASE Boot
  BY <1>5, BootScene
<1>6. CASE Elapse
  BY <1>0, <1>6
     DEF Elapse, Less, SceneInv, SceneExclusive, MarksAgree, AgreesWithMode,
         FlagsMarked, OffIsFresh, LightHonest, Emitted, Loaded
<1>7. CASE PowerLoss
  <2>1. MarksAgree'
    BY <1>7, FactoryMark DEF PowerLoss, SceneInv, MarksAgree, AgreesWithMode, Loaded
  <2>2. LightHonest'
    BY <1>7 DEF PowerLoss, LightHonest, Emitted, Dark
  <2> QED BY <1>0, <1>7, <2>1, <2>2
          DEF PowerLoss, SceneInv, SceneExclusive, FlagsMarked, OffIsFresh
<1>8. CASE EraseNvs
  <2>1. MarksAgree'
    BY <1>8, FactoryMark DEF EraseNvs, SceneInv, MarksAgree, AgreesWithMode, Loaded
  <2> QED BY <1>0, <1>8, <2>1
          DEF EraseNvs, SceneInv, SceneExclusive, FlagsMarked, OffIsFresh,
              LightHonest, Emitted
<1> QED BY <1>1, <1>2, <1>3, <1>4, <1>5, <1>6, <1>7, <1>8 DEF Next, Environment

\* The scene invariant holds in every reachable state: the marks in RAM and in
\* flash agree with the mode, at most one scene runs, and it is marked; the
\* report is honest; a board without power is fresh.
THEOREM SceneCorrect == Spec => []SceneInv
BY SceneInit, SceneStep, PTL DEF Spec

\* The special scenes exclude one another, and no storm runs under the guest
\* scene: aq_storm and aq_tick never fight over the light.
THEOREM ScenesExclude == Spec => []SceneExclusive
<1>1. SceneInv => SceneExclusive
  BY DEF SceneInv
<1> QED BY <1>1, SceneCorrect, PTL

\* The state reported to every client is that of the lamp and of the relay.
THEOREM ReportIsHonest == Spec => []ReportHonest
<1>1. SceneInv => ReportHonest
  BY DEF SceneInv, ReportHonest, LightHonest
<1> QED BY <1>1, SceneCorrect, PTL

\* The running scene is the one marked to be resumed after a restart, also
\* when saves fail.
THEOREM SceneIsRemembered == Spec => []SceneRemembered
<1>1. SceneInv => SceneRemembered
  BY DEF SceneInv, SceneRemembered, FlagsMarked, MarksAgree, AgreesWithMode
<1> QED BY <1>1, SceneCorrect, PTL

-----------------------------------------------------------------------------
\* While a storm goes on, only aq_storm changes the light: a tick under a storm
\* finds no guest scene in front of it and leaves the light alone.
LEMMA StormOwnsStep ==
    ASSUME SceneInv, [Next]_vars, storm_left > 0, storm_left' > 0, led' # led
    PROVE  StormStep
<1> USE DEF scenes, reported, hardware, world, stored, timers
<1>1. CASE Command
  BY <1>1, CommandOutputs
<1>2. CASE Tick
  <2>1. storm_left # 0
    BY DEF SceneInv, TypeOK
  <2>2. ~guest_scene_active
    BY <2>1 DEF SceneInv, SceneExclusive
  <2>3. PaintOwner("STORM", settings, thermal_throttle')
    BY <1>2, <2>2 DEF Tick, RefreshLiveState, PaintScene, OwnerOf
  <2> QED BY <2>3 DEF PaintOwner
<1>3. CASE Boot
  BY <1>3 DEF Boot, SceneInv, OffIsFresh
<1>4. CASE PowerLoss
  BY <1>4 DEF PowerLoss
<1>5. CASE \/ WeatherSetResult \/ EraseNvs \/ Elapse \/ TimeSync \/ SensorUpdate
           \/ UNCHANGED vars
  BY <1>5 DEF WeatherSetResult, EraseNvs, Elapse, TimeSync, SensorUpdate, vars
<1> QED BY <1>1, <1>2, <1>3, <1>4, <1>5 DEF Next, Environment

\* Of the two tasks that write the light, only aq_storm does so during a storm.
THEOREM StormOwnsTheLight == Spec => StormOwnsLight
<1>1. SceneInv /\ [Next]_vars =>
        [storm_left > 0 /\ storm_left' > 0 /\ led' # led => StormStep]_vars
  BY StormOwnsStep
<1> QED BY <1>1, SceneCorrect, PTL DEF Spec, StormOwnsLight

-----------------------------------------------------------------------------
(* The inductive invariant of the storms.  A boot may arm no storm and comes *)
(* with none (OffIsFresh of SceneInv), so that what holds of a running storm *)
(* was established when the weather armed it.                                *)

WeatherInv == SceneInv /\ StormOnlyInAuto /\ CalmBetweenStorms

-----------------------------------------------------------------------------
\* A command without scene_lightning leaves the running storm and the mode it
\* runs in alone, or ends the storm; the next storm of the weather stays put.
LEMMA CommandStorm ==
    ASSUME SceneInv, Command, "scene_lightning" \notin Commands
    PROVE  /\ UNCHANGED weather_storm_left
           /\ \/ storm_left' = 0
              \/ /\ UNCHANGED storm_left
                 /\ settings'.operation_mode = settings.operation_mode
<1> USE DEF EnterScene, LeaveSpecialScenes, Commit, OutputsUntouched
<1>0. settings \in Settings
  BY DEF SceneInv, TypeOK
<1>1. CASE \/ \E m \in Modes : SetOperationMode(m)
           \/ \E l \in 0..MaxLevel : SetManualRgbw(l)
           \/ \E i \in Slots : LoadPreset(i)
  BY <1>1 DEF SetOperationMode, SetManualRgbw, LoadPreset, GoManual
<1>2. CASE SceneShowGuests \/ SceneManualMoon \/ SceneEndSpecial
  BY <1>2 DEF SceneShowGuests, SceneManualMoon, SceneEndSpecial
<1>3. CASE SceneLightning
  BY <1>3 DEF SceneLightning, Sent
<1>4. CASE RejectedArgument \/ SceneFeed15min
  BY <1>4 DEF RejectedArgument, SceneFeed15min, stored
<1>5. CASE \/ \E on \in BOOLEAN : SetPump(on)
           \/ \E i \in Slots, l \in Levels : SavePreset(i, l)
           \/ \E p \in Profiles : SetSchedule(p) \/ SetFlags(p)
  BY <1>0, <1>5 DEF SetPump, SavePreset, SetSchedule, SetFlags, SettingsOnly, Settings
<1>6. CASE \E patch \in Patches : ImportSettings(patch)
  <2>1. PICK patch \in Patches : ImportSettings(patch)
    BY <1>6
  <2>2. patch.operation_mode = Absent =>
          Patched(settings, patch).operation_mode = settings.operation_mode
    BY <1>0 DEF Patched, Given, Settings
  <2> QED BY <2>1, <2>2 DEF ImportSettings
<1> QED BY <1>1, <1>2, <1>3, <1>4, <1>5, <1>6 DEF Command

\* The refresh leaves the storms alone, or arms one in automatic mode that
\* ends well before the next.
LEMMA RefreshStorm ==
    ASSUME NEW s, NEW guest, NEW moon, RefreshLiveState(s, guest, moon)
    PROVE  \/ UNCHANGED <<storm_left, weather_storm_left>>
           \/ /\ s.operation_mode = "AUTO_24H"
              /\ storm_left' = StormTime /\ weather_storm_left' \in GapMin..GapMax
BY DEF RefreshLiveState, ArmWeatherStorm, WeatherStormDue

\* A board never powered before has no storm.
LEMMA WeatherInit == Init => WeatherInv
BY SceneInit DEF Init, WeatherInv, StormOnlyInAuto, CalmBetweenStorms

\* Every step keeps the weather invariant.
LEMMA WeatherStep == WeatherInv /\ [Next]_vars => WeatherInv'
<1> SUFFICES ASSUME WeatherInv, [Next]_vars PROVE WeatherInv'
  OBVIOUS
<1>0. SceneInv /\ SceneInv'
  BY SceneStep DEF WeatherInv
<1> SUFFICES ASSUME "scene_lightning" \notin Commands, storm_left' > 0
             PROVE  /\ settings'.operation_mode = "AUTO_24H"
                    /\ weather_storm_left' - storm_left' >= GapMin - StormTime
  BY <1>0 DEF WeatherInv, StormOnlyInAuto, CalmBetweenStorms
<1>1. storm_left > 0 =>
        /\ settings.operation_mode = "AUTO_24H"
        /\ weather_storm_left - storm_left >= GapMin - StormTime
  BY DEF WeatherInv, StormOnlyInAuto, CalmBetweenStorms
<1>2. storm_left \in 0..StormTime /\ weather_storm_left \in 0..GapMax
  BY <1>0 DEF SceneInv, TypeOK
<1> USE DEF scenes, reported, hardware, world, stored, timers
<1>3. CASE Command
  BY <1>0, <1>1, <1>3, CommandStorm
<1>4. CASE Tick
  BY <1>1, <1>4, RefreshStorm, TimesAssumption DEF Tick
<1>5. CASE Boot
  <2>1. storm_left = 0
    BY <1>0, <1>5 DEF Boot, SceneInv, OffIsFresh
  <2> QED BY <1>5, <2>1, RefreshStorm, TimesAssumption DEF Boot
<1>6. CASE Elapse
  BY <1>1, <1>2, <1>6, TimesAssumption DEF Elapse, Less
<1>7. CASE PowerLoss
  BY <1>7 DEF PowerLoss
<1>8. CASE \/ StormStep \/ WeatherSetResult \/ EraseNvs \/ TimeSync \/ SensorUpdate
           \/ UNCHANGED vars
  BY <1>1, <1>8 DEF StormStep, WeatherSetResult, EraseNvs, TimeSync, SensorUpdate, vars
<1> QED BY <1>3, <1>4, <1>5, <1>6, <1>7, <1>8 DEF Next, Environment

\* The weather invariant holds in every reachable state.
LEMMA WeatherCorrect == Spec => []WeatherInv
BY WeatherInit, WeatherStep, PTL DEF Spec

\* A storm that no client asked for ends when the light becomes manual.
THEOREM WeatherStormsOnlyInAuto == Spec => []StormOnlyInAuto
<1>1. WeatherInv => StormOnlyInAuto
  BY DEF WeatherInv
<1> QED BY <1>1, WeatherCorrect, PTL

\* Between two storms of the weather there is always a calm.
THEOREM WeatherStormsSpaced == Spec => []CalmBetweenStorms
<1>1. WeatherInv => CalmBetweenStorms
  BY DEF WeatherInv
<1> QED BY <1>1, WeatherCorrect, PTL

-----------------------------------------------------------------------------
(* The thermal throttle *)

\* The light of the day plan is never brighter than the plan.
LEMMA AutoLevelBound ==
    ASSUME NEW s \in Settings, NEW hour \in Hours, NEW t \in BOOLEAN
    PROVE  AutoLevel(s, hour, t) <= Schedule[<<s.profile, hour, t>>]
<1>1. <<s.profile, hour, t>> \in Profiles \X Hours \X BOOLEAN
  BY DEF Settings
<1>2. Schedule[<<s.profile, hour, t>>] \in Levels
  BY <1>1, ConstantsAssumption
<1> QED BY <1>2, ConstantsAssumption DEF AutoLevel, Levels

\* Scheduled light is at most what the day plan gives for the throttle.
LEMMA ApplyAutoLightBound ==
    ASSUME NEW s \in Settings, NEW t \in BOOLEAN, ApplyAutoLight(s, t),
           led'.palette = "schedule"
    PROVE  \E hour \in Hours : led'.level <= Schedule[<<s.profile, hour, t>>]
<1>1. ~(led' = Dark)
  BY DEF Dark
<1>2. PICK hour \in Hours :
        LET l == AutoLevel(s, hour, t)
        IN  Paint(IF l = 0 THEN Dark ELSE Look("schedule", l))
  BY <1>1, ConstantsAssumption DEF ApplyAutoLight
<1> DEFINE l == AutoLevel(s, hour, t)
<1>3. l \in Levels /\ l <= Schedule[<<s.profile, hour, t>>]
  BY AutoLevelType, AutoLevelBound
<1>4. led' = Emitted(IF l = 0 THEN Dark ELSE Look("schedule", l))
  BY <1>2 DEF Paint
<1>5. led'.level = l
  BY <1>1, <1>3, <1>4, ConstantsAssumption DEF Emitted, Dark, Look, Levels
<1> QED BY <1>3, <1>5

\* A step that writes scheduled light to an overheated tank writes it throttled.
LEMMA ThrottleStep ==
    ASSUME SceneInv, [Next]_vars, running, running', thermal_throttle,
           temp # "cool", led' # led, led'.palette = "schedule"
    PROVE  \E hour \in Hours :
             led'.level <= Schedule[<<settings.profile, hour, TRUE>>]
<1> USE DEF scenes, reported, hardware, world, stored, timers
<1>1. CASE Command
  BY <1>1, CommandOutputs
<1>2. CASE Tick
  <2>1. settings \in Settings
    BY DEF SceneInv, TypeOK
  <2>2. thermal_throttle'
    BY <1>2 DEF Tick, RefreshLiveState, Throttle
  <2> DEFINE owner == OwnerOf(settings, guest_scene_active, moon_scene_active,
                              storm_left' > 0)
  <2>3. PaintOwner(owner, settings, thermal_throttle')
    BY <1>2 DEF Tick, RefreshLiveState, PaintScene
  <2>4. ASSUME NEW p \in {"guests", "moon", "manual"}, NEW l, Paint(Look(p, l))
        PROVE  FALSE
    BY <2>4 DEF Paint, Look, Emitted, Dark
  <2>5. ApplyAutoLight(settings, TRUE)
    <3>1. thermal_throttle' = TRUE
      BY <1>2, <2>2 DEF Tick, RefreshLiveState, Throttle
    <3>2. ApplyAutoLight(settings, thermal_throttle')
      BY <2>3, <2>4 DEF PaintOwner
    <3> QED BY <3>1, <3>2
  <2> QED BY <2>1, <2>5, ApplyAutoLightBound
<1>3. CASE StormStep
  BY <1>3 DEF StormStep, Paint, Look, Emitted, Dark
<1>4. CASE Boot
  BY <1>4 DEF Boot
<1>5. CASE PowerLoss
  BY <1>5 DEF PowerLoss
<1>6. CASE \/ WeatherSetResult \/ EraseNvs \/ Elapse \/ TimeSync \/ SensorUpdate
           \/ UNCHANGED vars
  BY <1>6 DEF WeatherSetResult, EraseNvs, Elapse, TimeSync, SensorUpdate, vars
<1> QED BY <1>1, <1>2, <1>3, <1>4, <1>5, <1>6 DEF Next, Environment

\* Overheated water keeps the scheduled light throttled until a cool reading.
THEOREM ThrottleIsHeld == Spec => ThrottleHolds
<1>1. SceneInv /\ [Next]_vars =>
        [(/\ running /\ running' /\ thermal_throttle /\ temp # "cool"
          /\ led' # led /\ led'.palette = "schedule")
         => \E hour \in Hours :
              led'.level <= Schedule[<<settings.profile, hour, TRUE>>]]_vars
  BY ThrottleStep
<1> QED BY <1>1, SceneCorrect, PTL DEF Spec, ThrottleHolds

-----------------------------------------------------------------------------
(* Settings that are not dirty are stored *)

\* That it is so always needs: set_settings, which forgets a failed save, is not
\* used, or no save fails.
Saves == FlashFaults => "set_settings" \notin Commands

StoreInv == SceneInv /\ CleanMeansStored

\* A save that reported success is what a boot loads.
LEMMA SavedLoaded ==
    ASSUME NEW in \in Settings, Save(in, TRUE)
    PROVE  Loaded' = in
BY AbsentAssumption DEF Save, Loaded

\* After persist_if_dirty, settings that are not dirty are those in flash.
LEMMA PersistClean ==
    ASSUME NEW in \in Settings, NEW d \in BOOLEAN, PersistIfDirty(in, d),
           d \/ Loaded = in
    PROVE  ~dirty_settings' => Loaded' = in
<1>1. CASE d
  <2>1. PICK ok \in BOOLEAN : Save(in, ok) /\ dirty_settings' = ~ok
    BY <1>1 DEF PersistIfDirty
  <2>2. CASE ok
    <3>1. ok = TRUE
      BY <2>2
    <3> QED BY <2>1, <3>1, SavedLoaded
  <2> QED BY <2>1, <2>2
<1>2. CASE ~d
  BY <1>2 DEF PersistIfDirty, Loaded
<1> QED BY <1>1, <1>2

\* The same of a command that assigns its settings and saves them.
LEMMA CommitClean ==
    ASSUME NEW in \in Settings, Commit(in)
    PROVE  settings' = in /\ (~dirty_settings' => Loaded' = in)
BY PersistClean DEF Commit

\* A patch without a field changes nothing.
LEMMA UntouchedPatch ==
    ASSUME NEW s \in Settings, NEW patch \in Patches, ~Touched(patch)
    PROVE  Patched(s, patch) = s
<1>1. patch \in PatchType
  BY ConstantsAssumption
<1>2. /\ patch.operation_mode = Absent /\ patch.pump_on = Absent
      /\ patch.weather_link = Absent /\ patch.manual = Absent
      /\ patch.profile = Absent
  BY <1>1 DEF Touched, PatchType
<1> QED BY <1>2 DEF Patched, Given, Clamped, Settings

\* After every command but set_settings the settings are in flash or marked
\* dirty, saves failing or not.
LEMMA CommandClean ==
    ASSUME StoreInv, Command, ~\E patch \in Patches : ImportSettings(patch)
    PROVE  ~dirty_settings' => Loaded' = settings'
<1>0. /\ settings \in Settings /\ dirty_settings \in BOOLEAN
      /\ dirty_settings \/ Loaded = settings
  BY CommandOutputs DEF StoreInv, SceneInv, TypeOK, CleanMeansStored
<1>1. CASE \E m \in Modes : SetOperationMode(m)
  <2>1. PICK m \in Modes : SetOperationMode(m)
    BY <1>1
  <2>2. ResumeOf(m) \in Resume
    BY ResumeOfType DEF Resume
  <2>3. [settings EXCEPT !.operation_mode = m, !.resume_scene_mode = ResumeOf(m)]
          \in Settings
    BY <1>0, <2>2, ModeSettings, Zenon
  <2> QED BY <2>1, <2>3, CommitClean DEF SetOperationMode
<1>2. ASSUME NEW l \in 0..MaxLevel, GoManual(l)
      PROVE  ~dirty_settings' => Loaded' = settings'
  <2>1. [settings EXCEPT !.manual = l, !.operation_mode = "MANUAL",
                         !.resume_scene_mode = "MANUAL"] \in Settings
    BY <1>0, ManualSettings, Zenon
  <2> QED BY <1>2, <2>1, CommitClean DEF GoManual
<1>3. CASE \E l \in 0..MaxLevel : SetManualRgbw(l)
  BY <1>2, <1>3 DEF SetManualRgbw
<1>4. CASE \E i \in Slots : LoadPreset(i)
  <2>1. PICK i \in Slots : LoadPreset(i)
    BY <1>4
  <2>2. settings.presets[i] \in 0..MaxLevel
    BY <1>0, <2>1, ConstantsAssumption DEF LoadPreset, Settings, Levels
  <2> QED BY <1>2, <2>1, <2>2 DEF LoadPreset
<1>5. ASSUME NEW name, NEW in \in Settings, SettingsOnly(name, in)
      PROVE  ~dirty_settings' => Loaded' = settings'
  BY <1>5, CommitClean DEF SettingsOnly
<1>6. CASE \E on \in BOOLEAN : SetPump(on)
  <2>1. PICK on \in BOOLEAN : SetPump(on)
    BY <1>6
  <2>2. [settings EXCEPT !.pump_on = on] \in Settings
    BY <1>0 DEF Settings
  <2> QED BY <1>5, <2>1, <2>2 DEF SetPump
<1>7. CASE \E i \in Slots, l \in Levels : SavePreset(i, l)
  BY <1>0, <1>5, <1>7, PresetSettings DEF SavePreset
<1>8. CASE \E p \in Profiles : SetSchedule(p) \/ SetFlags(p)
  <2>1. PICK p \in Profiles : SetSchedule(p) \/ SetFlags(p)
    BY <1>8
  <2>2. [settings EXCEPT !.profile = p] \in Settings
    BY <1>0 DEF Settings
  <2> QED BY <1>5, <2>1, <2>2 DEF SetSchedule, SetFlags
<1>9. CASE RejectedArgument
  BY <1>0, <1>9, PersistClean DEF RejectedArgument
<1>10. CASE SceneShowGuests \/ SceneManualMoon
  <2>1. PICK r \in {"SHOW_GUESTS", "MOON_TEMP"} :
          Commit([settings EXCEPT !.resume_scene_mode = r])
    BY <1>10 DEF SceneShowGuests, SceneManualMoon
  <2>2. [settings EXCEPT !.resume_scene_mode = r] \in Settings
    BY <1>0, ResumeSettings DEF Resume
  <2> QED BY <2>1, <2>2, CommitClean
<1>11. CASE SceneFeed15min \/ SceneLightning
  BY <1>0, <1>11 DEF SceneFeed15min, SceneLightning, stored, Loaded
<1>12. CASE SceneEndSpecial
  <2>1. [settings EXCEPT !.resume_scene_mode = ResumeOf(settings.operation_mode)]
          \in Settings
    BY <1>0, ResumeSettings, ResumeOfType DEF Resume
  <2> QED BY <1>12, <2>1, CommitClean DEF SceneEndSpecial
<1> QED BY <1>1, <1>3, <1>4, <1>6, <1>7, <1>8, <1>9, <1>10, <1>11, <1>12
        DEF Command

\* So they are after set_settings if no save fails.
LEMMA ImportClean ==
    ASSUME StoreInv, NEW patch \in Patches, ImportSettings(patch), Saves
    PROVE  ~dirty_settings' => Loaded' = settings'
<1>1. /\ running /\ settings \in Settings /\ dirty_settings \in BOOLEAN
      /\ dirty_settings \/ Loaded = settings
  BY DEF ImportSettings, Sent, StoreInv, SceneInv, TypeOK, CleanMeansStored
<1>2. settings' \in Settings
  BY <1>1, PatchedType DEF ImportSettings
<1>3. CASE dirty_settings \/ Touched(patch)
  <2>1. ~FlashFaults
    BY DEF ImportSettings, Sent, Saves
  <2>2. PICK ok \in BOOLEAN : Save(settings', ok)
    BY <1>3 DEF ImportSettings
  <2>3. nvs' = settings'
    BY <2>1, <2>2 DEF Save
  <2> QED BY <1>2, <2>3, AbsentAssumption DEF Loaded
<1>4. CASE ~(dirty_settings \/ Touched(patch))
  <2>1. settings' = settings /\ nvs' = nvs
    BY <1>1, <1>4, UntouchedPatch DEF ImportSettings
  <2> QED BY <1>1, <1>4, <2>1 DEF Loaded
<1> QED BY <1>3, <1>4

\* A board never powered before has nothing to store.
LEMMA StoreInit == Init => StoreInv
BY SceneInit DEF Init, StoreInv, CleanMeansStored

\* No step but set_settings loses track of what is not stored.
LEMMA CleanStep ==
    ASSUME StoreInv, [Next]_vars, ~\E patch \in Patches : ImportSettings(patch)
    PROVE  CleanMeansStored'
<1> SUFFICES ASSUME running' PROVE ~dirty_settings' => Loaded' = settings'
  BY DEF CleanMeansStored
<1> USE DEF stored
<1>1. CASE Command
  BY <1>1, CommandClean
<1>2. CASE Tick
  <2>1. /\ settings \in Settings /\ dirty_settings \in BOOLEAN
        /\ dirty_settings \/ Loaded = settings
    BY <1>2 DEF Tick, StoreInv, SceneInv, TypeOK, CleanMeansStored
  <2> QED BY <1>2, <2>1, PersistClean DEF Tick
<1>3. CASE Boot
  BY <1>3 DEF Boot, Loaded
<1>4. CASE PowerLoss \/ EraseNvs
  BY <1>4 DEF PowerLoss, EraseNvs, world
<1>5. CASE StormStep \/ WeatherSetResult \/ Elapse \/ TimeSync \/ SensorUpdate
           \/ UNCHANGED vars
  BY <1>5 DEF StormStep, WeatherSetResult, Elapse, TimeSync, SensorUpdate, world,
     vars, StoreInv, CleanMeansStored, Loaded
<1> QED BY <1>1, <1>2, <1>3, <1>4, <1>5 DEF Next, Environment

\* Every step keeps the store invariant, if set_settings meets no failing save.
LEMMA StoreStep == ASSUME Saves PROVE StoreInv /\ [Next]_vars => StoreInv'
<1> SUFFICES ASSUME StoreInv, [Next]_vars PROVE StoreInv'
  OBVIOUS
<1>1. SceneInv'
  BY SceneStep DEF StoreInv
<1>2. CleanMeansStored'
  BY CleanStep, ImportClean DEF CleanMeansStored
<1> QED BY <1>1, <1>2 DEF StoreInv

\* The store invariant holds in every reachable state.
LEMMA StoreCorrect == ASSUME Saves PROVE Spec => []StoreInv
<1>1. StoreInv /\ [Next]_vars => StoreInv'
  BY StoreStep
<1> QED BY <1>1, StoreInit, PTL DEF Spec

\* If saves never fail, or set_settings is not used, the settings that are not
\* marked dirty are the ones a restart loads.
THEOREM CleanIsStored == ASSUME Saves PROVE Spec => []CleanMeansStored
<1>1. StoreInv => CleanMeansStored
  BY DEF StoreInv
<1> QED BY <1>1, StoreCorrect, PTL

\* Whatever fails, set_settings is the only step after which settings that are
\* in RAM alone are not marked dirty.
THEOREM OnlyImportForgets == Spec => ImportAloneForgets
<1>1. SceneInv /\ [Next]_vars
        => [CleanMeansStored /\ ~CleanMeansStored'
              => \E patch \in Patches : ImportSettings(patch)]_vars
  BY CleanStep DEF StoreInv
<1> QED BY <1>1, SceneCorrect, PTL DEF Spec, ImportAloneForgets

\* Without flash faults nothing is ever left dirty.
NeverDirty == StoreInv /\ ~dirty_settings

\* Where saves do not fail, persist_if_dirty leaves nothing dirty.
LEMMA PersistNoFault ==
    ASSUME ~FlashFaults, NEW in, NEW d, PersistIfDirty(in, d)
    PROVE  ~dirty_settings'
BY DEF PersistIfDirty, Save

\* Where saves do not fail, no step leaves anything dirty.
LEMMA DirtyStep ==
    ASSUME ~FlashFaults, NeverDirty, [Next]_vars
    PROVE  NeverDirty'
<1>1. StoreInv'
  BY StoreStep DEF NeverDirty, Saves
<1> SUFFICES ~dirty_settings'
  BY <1>1 DEF NeverDirty
<1> USE DEF NeverDirty, stored, Commit
<1>2. CASE Command
  BY <1>2, PersistNoFault
     DEF Command, SetOperationMode, SetManualRgbw, GoManual, SetPump, SavePreset,
         LoadPreset, SetSchedule, SetFlags, RejectedArgument, SceneShowGuests,
         SceneManualMoon, SceneFeed15min, SceneLightning, SceneEndSpecial,
         ImportSettings, SettingsOnly
<1>3. CASE Tick
  BY <1>3, PersistNoFault DEF Tick
<1>4. CASE \/ StormStep \/ WeatherSetResult \/ EraseNvs \/ Boot \/ Environment
           \/ UNCHANGED vars
  BY <1>4 DEF StormStep, WeatherSetResult, EraseNvs, Boot, Environment, Elapse,
     TimeSync, SensorUpdate, PowerLoss, vars
<1> QED BY <1>2, <1>3, <1>4 DEF Next

-----------------------------------------------------------------------------
(* The refinement *)

\* A save leaves the blob as it was only if saves can fail.
LEMMA SaveRemembers ==
    ASSUME NEW in \in Settings, NEW ok, Save(in, ok)
    PROVE  Arbiter!Saves(in.operation_mode, Memory(in).special)
<1>1. CASE nvs' = in
  <2>1. Loaded' = in
    BY <1>1, AbsentAssumption DEF Loaded
  <2> QED BY <2>1 DEF Arbiter!Saves, Memory
<1>2. CASE nvs' = nvs /\ FlashFaults
  <2>1. Memory(Loaded)' = Memory(Loaded)
    BY <1>2 DEF Loaded, Memory
  <2> QED BY <1>2, <2>1 DEF Arbiter!Saves
<1> QED BY <1>1, <1>2 DEF Save

\* The same of persist_if_dirty, which saves only what is dirty.
LEMMA PersistRemembers ==
    ASSUME NEW in \in Settings, NEW d, PersistIfDirty(in, d)
    PROVE  IF d THEN Arbiter!Saves(in.operation_mode, Memory(in).special)
                ELSE Memory(Loaded)' = Memory(Loaded)
BY SaveRemembers DEF PersistIfDirty, Loaded, Memory

\* A choice that is saved is a choice of the arbiter.
LEMMA ChooseStep ==
    ASSUME running, running' = running, NEW in \in Settings, Commit(in),
           SpecialOf(guest_scene_active', moon_scene_active') = Memory(in).special,
           storm_left' = 0
    PROVE  Arbiter!Choose(in.operation_mode, Memory(in).special)
<1>1. settings' = in /\ Arbiter!Saves(in.operation_mode, Memory(in).special)
  BY PersistRemembers DEF Commit
<1>2. ~(storm_left' > 0)
  OBVIOUS
<1> QED BY <1>1, <1>2 DEF Arbiter!Choose

\* A step that changes neither scene nor mark is a save or a stutter.
LEMMA SaveStep ==
    ASSUME running,
           UNCHANGED <<running, storm_left, guest_scene_active, moon_scene_active>>,
           settings'.operation_mode = settings.operation_mode,
           Memory(settings') = Memory(settings),
           \/ Arbiter!Saves(settings'.operation_mode, Memory(settings').special)
           \/ Memory(Loaded)' = Memory(Loaded)
    PROVE  [Arbiter!ANext]_(Arbiter!avars)
<1>1. UNCHANGED <<running, settings.operation_mode,
                  SpecialOf(guest_scene_active, moon_scene_active), storm_left > 0,
                  Memory(settings).special>>
  OBVIOUS
<1>2. CASE Arbiter!Saves(settings'.operation_mode, Memory(settings').special)
  <2>1. Arbiter!Saves(settings.operation_mode, Memory(settings).special)
    BY <1>2
  <2>2. Arbiter!SaveAgain
    BY <1>1, <2>1 DEF Arbiter!SaveAgain
  <2> QED BY <2>2 DEF Arbiter!ANext
<1>3. CASE Memory(Loaded)' = Memory(Loaded)
  BY <1>1, <1>3 DEF Arbiter!avars
<1> QED BY <1>2, <1>3

\* Every command is a choice of the user, a storm on request, or a stutter.
LEMMA CommandRefines ==
    ASSUME SceneInv, Command
    PROVE  [Arbiter!ANext]_(Arbiter!avars)
<1> USE DEF EnterScene, LeaveSpecialScenes
<1>0. settings \in Settings /\ running /\ running' = running
  BY CommandOutputs DEF SceneInv, TypeOK
<1>1. ASSUME NEW m \in Modes, Arbiter!Choose(m, "none") PROVE Arbiter!ANext
  BY <1>1 DEF Arbiter!ANext, Arbiter!ChooseMode, Arbiter!AModes, Modes
<1>2. CASE \E m \in Modes : SetOperationMode(m)
  <2>1. PICK m \in Modes : SetOperationMode(m)
    BY <1>2
  <2> DEFINE in == [settings EXCEPT !.operation_mode = m,
                                    !.resume_scene_mode = ResumeOf(m)]
  <2> ResumeOf(m) \in Resume
    BY ResumeOfType DEF Resume
  <2>a. in \in Settings
    BY <1>0, ModeSettings, Zenon
  <2>b. in.operation_mode = m /\ in.resume_scene_mode = ResumeOf(m)
    BY <1>0 DEF Settings
  <2>2. /\ in \in Settings /\ in.operation_mode = m
        /\ in.resume_scene_mode = ResumeOf(m)
    BY <2>a, <2>b
  <2>3. Memory(in).special = "none"
    BY <2>2, ResumeOfType DEF Memory, SpecialOf
  <2>4. /\ SpecialOf(guest_scene_active', moon_scene_active') = "none"
        /\ storm_left' = 0 /\ Commit(in)
    BY <2>1 DEF SetOperationMode, SpecialOf
  <2> HIDE DEF in
  <2>5. Arbiter!Choose(m, "none")
    BY <1>0, <2>2, <2>3, <2>4, ChooseStep
  <2> QED BY <1>1, <2>5
<1>3. ASSUME NEW l \in 0..MaxLevel, GoManual(l) PROVE Arbiter!ANext
  <2> DEFINE in == [settings EXCEPT !.manual = l, !.operation_mode = "MANUAL",
                                    !.resume_scene_mode = "MANUAL"]
  <2>a. in \in Settings
    BY <1>0, ManualSettings, Zenon
  <2>b. in.operation_mode = "MANUAL" /\ in.resume_scene_mode = "MANUAL"
    BY <1>0 DEF Settings
  <2>1. /\ in \in Settings /\ in.operation_mode = "MANUAL"
        /\ in.resume_scene_mode = "MANUAL"
    BY <2>a, <2>b
  <2>2. Memory(in).special = "none"
    BY <2>1 DEF Memory, SpecialOf
  <2>3. /\ SpecialOf(guest_scene_active', moon_scene_active') = "none"
        /\ storm_left' = 0 /\ Commit(in)
    BY <1>3 DEF GoManual, SpecialOf
  <2> HIDE DEF in
  <2>4. Arbiter!Choose("MANUAL", "none")
    BY <1>0, <2>1, <2>2, <2>3, ChooseStep
  <2> QED BY <1>1, <2>4 DEF Modes
<1>4. CASE \E l \in 0..MaxLevel : SetManualRgbw(l)
  BY <1>3, <1>4 DEF SetManualRgbw
<1>5. CASE \E i \in Slots : LoadPreset(i)
  <2>1. PICK i \in Slots : LoadPreset(i)
    BY <1>5
  <2>2. settings.presets[i] \in 0..MaxLevel
    BY <1>0, <2>1, ConstantsAssumption DEF LoadPreset, Settings, Levels
  <2> QED BY <1>3, <2>1, <2>2 DEF LoadPreset
<1>6. ASSUME NEW name, NEW in \in Settings, SettingsOnly(name, in),
             in.operation_mode = settings.operation_mode,
             in.resume_scene_mode = settings.resume_scene_mode
      PROVE  [Arbiter!ANext]_(Arbiter!avars)
  <2>1. Commit(in) /\ settings' = in
        /\ UNCHANGED <<storm_left, guest_scene_active, moon_scene_active>>
    BY <1>6 DEF SettingsOnly, scenes, Commit
  <2>2. Memory(in) = Memory(settings)
    BY <1>6 DEF Memory
  <2>3. Arbiter!Saves(in.operation_mode, Memory(in).special)
    BY <2>1, PersistRemembers DEF Commit
  <2> QED BY <1>0, <1>6, <2>1, <2>2, <2>3, SaveStep
<1>7. CASE \E on \in BOOLEAN : SetPump(on)
  <2>1. PICK on \in BOOLEAN : SetPump(on)
    BY <1>7
  <2> DEFINE in == [settings EXCEPT !.pump_on = on]
  <2>2. /\ in \in Settings /\ in.operation_mode = settings.operation_mode
        /\ in.resume_scene_mode = settings.resume_scene_mode
    BY <1>0 DEF Settings
  <2> QED BY <1>6, <2>1, <2>2 DEF SetPump
<1>8. CASE \E i \in Slots, l \in Levels : SavePreset(i, l)
  <2>1. PICK i \in Slots, l \in Levels : SavePreset(i, l)
    BY <1>8
  <2> DEFINE in == [settings EXCEPT !.presets[i] = l]
  <2>2. /\ in \in Settings /\ in.operation_mode = settings.operation_mode
        /\ in.resume_scene_mode = settings.resume_scene_mode
    BY <1>0, PresetSettings DEF Settings
  <2> QED BY <1>6, <2>1, <2>2 DEF SavePreset
<1>9. CASE \E p \in Profiles : SetSchedule(p) \/ SetFlags(p)
  <2>1. PICK p \in Profiles : SetSchedule(p) \/ SetFlags(p)
    BY <1>9
  <2> DEFINE in == [settings EXCEPT !.profile = p]
  <2>2. /\ in \in Settings /\ in.operation_mode = settings.operation_mode
        /\ in.resume_scene_mode = settings.resume_scene_mode
    BY <1>0 DEF Settings
  <2> QED BY <1>6, <2>1, <2>2 DEF SetSchedule, SetFlags
<1>10. CASE RejectedArgument
  <2>1. UNCHANGED <<settings, storm_left, guest_scene_active, moon_scene_active>>
    BY <1>10 DEF RejectedArgument, scenes
  <2>2. dirty_settings /\ PersistIfDirty(settings, dirty_settings)
    BY <1>10, Zenon DEF RejectedArgument
  <2>3. Arbiter!Saves(settings.operation_mode, Memory(settings).special)
    BY <1>0, <2>2, PersistRemembers
  <2> QED BY <1>0, <2>1, <2>3, SaveStep
<1>11. CASE SceneShowGuests \/ SceneManualMoon
  <2>1. PICK r \in {"SHOW_GUESTS", "MOON_TEMP"} :
          /\ Commit([settings EXCEPT !.resume_scene_mode = r])
          /\ EnterScene(r = "SHOW_GUESTS", r = "MOON_TEMP")
    BY <1>11 DEF SceneShowGuests, SceneManualMoon
  <2> DEFINE in == [settings EXCEPT !.resume_scene_mode = r]
             sp == IF r = "SHOW_GUESTS" THEN "guests" ELSE "moon"
  <2>2. /\ in \in Settings /\ in.operation_mode = settings.operation_mode
        /\ in.resume_scene_mode = r
    BY <1>0, ResumeSettings DEF Settings, Resume
  <2>3. Memory(in).special = sp
    BY <2>2 DEF Memory, SpecialOf
  <2>4. /\ SpecialOf(guest_scene_active', moon_scene_active') = sp
        /\ storm_left' = 0 /\ Commit(in)
    BY <2>1 DEF SpecialOf
  <2> HIDE DEF in
  <2>5. Arbiter!Choose(settings.operation_mode, sp)
    BY <1>0, <2>2, <2>3, <2>4, ChooseStep
  <2> QED BY <2>5 DEF Arbiter!ANext, Arbiter!StartScene
<1>12. CASE SceneFeed15min
  <2>1. UNCHANGED <<settings, nvs, storm_left, guest_scene_active, moon_scene_active>>
    BY <1>12 DEF SceneFeed15min, stored, scenes
  <2>2. Memory(Loaded)' = Memory(Loaded)
    BY <2>1 DEF Memory, Loaded
  <2> QED BY <1>0, <2>1, <2>2, SaveStep
<1>13. CASE SceneLightning
  <2>1. /\ UNCHANGED <<settings, nvs>> /\ storm_left' > 0
        /\ SpecialOf(guest_scene_active', moon_scene_active') = "none"
    BY <1>13, TimesAssumption DEF SceneLightning, stored, SpecialOf
  <2>2. Memory(Loaded)' = Memory(Loaded)
    BY <2>1 DEF Memory, Loaded
  <2>3. Arbiter!StormOnRequest
    BY <1>0, <2>1, <2>2 DEF Arbiter!StormOnRequest
  <2> QED BY <2>3 DEF Arbiter!ANext
<1>14. CASE SceneEndSpecial
  <2> DEFINE m == settings.operation_mode
             in == [settings EXCEPT !.resume_scene_mode = ResumeOf(m)]
  <2>1. /\ in \in Settings /\ in.operation_mode = m
        /\ in.resume_scene_mode = ResumeOf(m)
    BY <1>0, ResumeSettings, ResumeOfType DEF Settings, Resume
  <2>2. Memory(in).special = "none"
    BY <2>1, ResumeOfType DEF Memory, SpecialOf
  <2>3. /\ SpecialOf(guest_scene_active', moon_scene_active') = "none"
        /\ storm_left' = 0 /\ Commit(in)
    BY <1>14 DEF SceneEndSpecial, SpecialOf
  <2>4. m \in Modes
    BY <1>0 DEF Settings
  <2> HIDE DEF in, m
  <2>5. Arbiter!Choose(m, "none")
    BY <1>0, <2>1, <2>2, <2>3, ChooseStep
  <2> QED BY <1>1, <2>4, <2>5
<1>15. CASE \E patch \in Patches : ImportSettings(patch)
  <2>1. PICK patch \in Patches : ImportSettings(patch)
    BY <1>15
  <2>2. settings' \in Settings
    BY <1>0, <2>1, PatchedType DEF ImportSettings
  <2>3. \/ Arbiter!Saves(settings'.operation_mode, Memory(settings').special)
        \/ ~Touched(patch) /\ Memory(Loaded)' = Memory(Loaded)
    BY <2>1, <2>2, SaveRemembers DEF ImportSettings, Loaded, Memory
  <2>4. CASE patch.operation_mode = Absent
    <3>1. /\ settings'.operation_mode = settings.operation_mode
          /\ settings'.resume_scene_mode = settings.resume_scene_mode
      BY <1>0, <2>1, <2>4 DEF ImportSettings, Patched, Given, Settings
    <3>2. UNCHANGED <<storm_left, guest_scene_active, moon_scene_active>>
      BY <2>1, <2>4 DEF ImportSettings, scenes
    <3>3. Memory(settings') = Memory(settings)
      BY <3>1 DEF Memory
    <3> QED BY <1>0, <2>3, <3>1, <3>2, <3>3, SaveStep
  <2>5. CASE patch.operation_mode # Absent
    <3> DEFINE m == patch.operation_mode
    <3>1. settings'.operation_mode = m /\ settings'.resume_scene_mode = ResumeOf(m)
      BY <1>0, <2>1, <2>5 DEF ImportSettings, Patched, Given, Settings
    <3>2. m \in Modes /\ Touched(patch)
      BY <2>5, ConstantsAssumption DEF PatchType, Touched
    <3>3. Memory(settings').special = "none"
      BY <3>1, ResumeOfType DEF Memory, SpecialOf
    <3>4. /\ SpecialOf(guest_scene_active', moon_scene_active') = "none"
          /\ ~(storm_left' > 0)
      BY <2>1, <2>5 DEF ImportSettings, SpecialOf
    <3>5. Arbiter!Choose(m, "none")
      BY <1>0, <2>3, <3>1, <3>2, <3>3, <3>4 DEF Arbiter!Choose
    <3> QED BY <1>1, <3>2, <3>5
  <2> QED BY <2>4, <2>5
<1> QED BY <1>2, <1>4, <1>5, <1>7, <1>8, <1>9, <1>10, <1>11, <1>12, <1>13, <1>14,
           <1>15 DEF Command

\* A refresh is the start of a storm by the weather or leaves the scene alone;
\* a save that was due may come with it.
LEMMA TickRefines ==
    ASSUME SceneInv, Tick
    PROVE  [Arbiter!ANext]_(Arbiter!avars)
<1>0. /\ running /\ running' = running /\ settings \in Settings
      /\ UNCHANGED <<settings, guest_scene_active, moon_scene_active>>
  BY DEF Tick, scenes, world, SceneInv, TypeOK
<1>1. \/ Arbiter!Saves(settings.operation_mode, Memory(settings).special)
      \/ Memory(Loaded)' = Memory(Loaded)
  BY <1>0, PersistRemembers DEF Tick
<1>2. ArmWeatherStorm(settings, guest_scene_active)
  BY DEF Tick, RefreshLiveState
<1>3. CASE WeatherStormDue(settings, guest_scene_active)
  <2>1. storm_left' > 0 /\ ~(storm_left > 0)
    BY <1>2, <1>3, TimesAssumption DEF ArmWeatherStorm, WeatherStormDue
  <2>2. /\ settings.operation_mode = "AUTO_24H"
        /\ SpecialOf(guest_scene_active, moon_scene_active) # "guests"
    BY <1>3 DEF WeatherStormDue, SpecialOf
  <2>3. Arbiter!StormByWeather
    BY <1>0, <1>1, <2>1, <2>2 DEF Arbiter!StormByWeather
  <2> QED BY <2>3 DEF Arbiter!ANext
<1>4. CASE ~WeatherStormDue(settings, guest_scene_active)
  <2>1. UNCHANGED storm_left
    BY <1>2, <1>4 DEF ArmWeatherStorm
  <2> QED BY <1>0, <1>1, <2>1, SaveStep
<1> QED BY <1>3, <1>4

\* A board never powered before is an arbiter that is off.
LEMMA ArbiterInit == Init => Arbiter!AInit
<1> SUFFICES ASSUME Init PROVE Arbiter!AInit
  OBVIOUS
<1>1. ~(storm_left > 0)
  BY DEF Init
<1>2. Memory(Loaded) = [mode |-> "AUTO_24H", special |-> "none"]
  BY DEF Init, Loaded, Memory, DefaultSettings, SpecialOf
<1>3. /\ settings.operation_mode = "AUTO_24H"
      /\ SpecialOf(guest_scene_active, moon_scene_active) = "none"
  BY DEF Init, DefaultSettings, SpecialOf
<1>4. Memory(settings).special = "none"
  BY DEF Init, DefaultSettings, Memory, SpecialOf
<1> QED BY <1>1, <1>2, <1>3, <1>4 DEF Init, Arbiter!AInit, Arbiter!Factory

\* Every step of the service is a step of the arbiter or changes nothing it
\* speaks of.
LEMMA ArbiterStep ==
    ASSUME SceneInv, [Next]_vars
    PROVE  [Arbiter!ANext]_(Arbiter!avars)
<1> USE DEF scenes, reported, hardware, world, stored, timers
<1>1. CASE Command
  BY <1>1, CommandRefines
<1>2. CASE Tick
  BY <1>2, TickRefines
<1>3. CASE Boot
  <2>1. storm_left = 0 /\ weather = Absent
    BY <1>3 DEF Boot, SceneInv, OffIsFresh
  <2>2. storm_left' = storm_left
    BY <1>3, <2>1, AbsentAssumption
       DEF Boot, RefreshLiveState, ArmWeatherStorm, WeatherStormDue
  <2>3. settings' = Loaded /\ Memory(Loaded)' = Memory(Loaded)
    BY <1>3 DEF Boot, Loaded, Memory
  <2>4. /\ guest_scene_active' = (Loaded.resume_scene_mode = "SHOW_GUESTS")
        /\ moon_scene_active' = (Loaded.resume_scene_mode = "MOON_TEMP")
        /\ ~running /\ running' = TRUE
    BY <1>3 DEF Boot
  <2>5. /\ settings'.operation_mode = Memory(Loaded).mode
        /\ SpecialOf(guest_scene_active', moon_scene_active') = Memory(Loaded).special
        /\ Memory(settings').special = Memory(Loaded).special
    BY <2>3, <2>4 DEF Memory
  <2>6. Arbiter!Restart
    BY <2>2, <2>3, <2>4, <2>5 DEF Arbiter!Restart
  <2> QED BY <2>6 DEF Arbiter!ANext
<1>4. CASE PowerLoss
  <2>1. /\ settings'.operation_mode = "AUTO_24H"
        /\ SpecialOf(guest_scene_active', moon_scene_active') = "none"
        /\ ~(storm_left' > 0) /\ Memory(settings').special = "none"
        /\ Memory(Loaded)' = Memory(Loaded)
    BY <1>4 DEF PowerLoss, DefaultSettings, SpecialOf, Loaded, Memory
  <2>2. Arbiter!SwitchOff
    BY <1>4, <2>1 DEF PowerLoss, Arbiter!SwitchOff
  <2> QED BY <2>2 DEF Arbiter!ANext
<1>5. CASE Elapse
  <2>1. UNCHANGED <<running, settings, guest_scene_active, moon_scene_active>>
        /\ Memory(settings)' = Memory(settings) /\ Memory(Loaded)' = Memory(Loaded)
    BY <1>5 DEF Elapse, Loaded, Memory
  <2>2. storm_left' = Less(storm_left) /\ storm_left \in 0..StormTime
    BY <1>5 DEF Elapse, SceneInv, TypeOK
  <2>3. CASE (storm_left' > 0) = (storm_left > 0)
    BY <2>1, <2>3 DEF Arbiter!avars
  <2>4. CASE storm_left > 0 /\ ~(storm_left' > 0)
    <3>1. Arbiter!StormPasses
      BY <2>1, <2>4 DEF Arbiter!StormPasses
    <3> QED BY <3>1 DEF Arbiter!ANext
  <2>5. storm_left' > 0 => storm_left > 0
    BY <2>2, TimesAssumption DEF Less
  <2> QED BY <2>3, <2>4, <2>5
<1>6. CASE StormStep \/ WeatherSetResult \/ TimeSync \/ SensorUpdate \/ UNCHANGED vars
  <2>1. /\ UNCHANGED <<running, settings, storm_left, guest_scene_active,
                       moon_scene_active>>
        /\ Memory(settings)' = Memory(settings) /\ Memory(Loaded)' = Memory(Loaded)
    BY <1>6 DEF StormStep, WeatherSetResult, TimeSync, SensorUpdate, vars, Loaded,
       Memory
  <2> QED BY <2>1 DEF Arbiter!avars
<1>7. CASE EraseNvs
  <2>1. /\ ~running /\ Memory(Loaded)' = Arbiter!Factory
        /\ UNCHANGED <<running, settings, storm_left, guest_scene_active,
                       moon_scene_active>>
        /\ Memory(settings)' = Memory(settings)
    BY <1>7 DEF EraseNvs, Loaded, Memory, DefaultSettings, SpecialOf, Arbiter!Factory,
       scenes, timers
  <2>2. Arbiter!EraseFlash
    BY <2>1 DEF Arbiter!EraseFlash
  <2> QED BY <2>2 DEF Arbiter!ANext
<1> QED BY <1>1, <1>2, <1>3, <1>4, <1>5, <1>6, <1>7 DEF Next, Environment

\* The service implements the scene arbiter: whatever the clients, the weather,
\* the clock and the mains do, and whichever saves fail, the scenes are chosen,
\* ended and resumed as SceneArbiter says.
THEOREM ServiceImplementsArbiter == Spec => ImplementsArbiter
<1>1. SceneInv /\ [Next]_vars => [Arbiter!ANext]_(Arbiter!avars)
  BY ArbiterStep
<1> QED BY <1>1, ArbiterInit, SceneCorrect, PTL
        DEF Spec, ImplementsArbiter, Arbiter!ASpec
=============================================================================
