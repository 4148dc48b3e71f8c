---------------------------- MODULE DeviceService ----------------------------
(***************************************************************************)
(* The heart of the controller (device_service.cpp): which scene owns the  *)
(* light, whether the pump runs, and which settings are safe in flash.     *)
(*                                                                         *)
(* Every public method of DeviceService holds mutex_ from its first read   *)
(* to its last write, so each one is a single atomic action; giving up on  *)
(* a mutex timeout ("busy") is a stuttering step.  The clients (WebSocket, *)
(* MQTT), the tasks aq_tick, aq_storm and aq_weather, the SNTP daemon, the *)
(* sensor task and the mains switch interleave freely.                     *)
(*                                                                         *)
(* Time.  The deadlines feed_until_ms_, lightning_until_ms_,               *)
(* next_weather_storm_ms_ and the 90 s wait for SNTP are kept as the time  *)
(* left to them, max(0, deadline - now), counted down by Elapse.           *)
(*                                                                         *)
(* Light.  A look [palette, level] stands for r, g, b, w and brightness:   *)
(* the palette says which routine chose the colours, the level says how    *)
(* bright in steps of 1/Full.  Levels above Full are the over-range values *)
(* a client can send.                                                      *)
(***************************************************************************)
EXTENDS Integers

CONSTANTS
    Commands,        \* names of the commands the clients send
    Patches,         \* data objects the clients send with set_settings
    Profiles,        \* all that the schedule, time zone and city settings can be
    DefaultProfile,
    Slots,           \* preset slots (4 in the code)
    Hours,           \* local times of day
    FallbackHour,    \* 14:00, assumed when SNTP stays silent
    Schedule,        \* <<profile, hour, throttled>> -> level: ScheduleEngine
    Dim,             \* level -> level under bad weather: apply_weather_to_target_locked
    Full,            \* brightness 1.0
    MaxLevel,        \* brightest value a client sends
    MoonLevel,       \* moon brightness after the clamp to 3..30 %
    FeedTime,        \* 15 min
    StormTime,       \* 30 s
    GapMin, GapMax,  \* 180 s .. 300 s between storms armed by the weather
    SntpGrace,       \* 90 s
    Readings,        \* what the water sensor reports
    Reports,         \* what the weather service reports
    FlashFaults,     \* may a write to NVS fail?
    Absent           \* no blob, no preset, no JSON field, no reading, no report

Modes  == {"AUTO_24H", "MANUAL"}
Resume == {"AUTO", "MANUAL", "MOON_TEMP", "SHOW_GUESTS"}
Scenes == Resume \cup {"STORM", "FEED"}
Levels == 0..Full

Palettes == {"dark", "schedule", "manual", "moon", "guests", "storm"}
Looks    == [palette : Palettes, level : 0..MaxLevel]

Settings == [operation_mode    : Modes,
             resume_scene_mode : Resume,
             pump_on           : BOOLEAN,
             weather_link      : BOOLEAN,
             manual            : 0..MaxLevel,
             presets           : [Slots -> Levels \cup {Absent}],
             profile           : Profiles]

PatchType == [operation_mode : Modes \cup {Absent},
              pump_on        : BOOLEAN \cup {Absent},
              weather_link   : BOOLEAN \cup {Absent},
              manual         : (0..MaxLevel) \cup {Absent},
              profile        : Profiles \cup {Absent}]

ASSUME ConstantsAssumption ==
    /\ DefaultProfile \in Profiles
    /\ Patches \subseteq PatchType
    /\ FallbackHour \in Hours
    /\ Full \in Nat \ {0} /\ MaxLevel \in Nat /\ MaxLevel >= Full
    /\ MoonLevel \in 1..Full
    /\ Schedule \in [Profiles \X Hours \X BOOLEAN -> Levels]
    /\ Dim \in [Levels -> Levels] /\ \A l \in Levels : Dim[l] <= l
    /\ Readings \subseteq {"cool", "mid", "hot"}
    /\ Reports \subseteq {"clear", "overcast", "thunder"}
    /\ FlashFaults \in BOOLEAN

\* Nothing is none of the things that may be there.
ASSUME AbsentAssumption == Absent \notin Settings /\ Absent # "thunder"

ASSUME TimesAssumption ==
    /\ FeedTime \in Nat \ {0}
    /\ StormTime \in Nat \ {0}
    /\ GapMin \in Nat /\ GapMax \in Nat
    /\ StormTime < GapMin /\ GapMin <= GapMax
    /\ SntpGrace \in Nat

VARIABLES
    running,            \* powered, and the constructor has returned
    settings,           \* settings_
    dirty_settings,     \* dirty_settings_
    nvs,                \* the blob aquarium/cfg in flash
    guest_scene_active, moon_scene_active,
    feed_left,          \* feed_until_ms_
    storm_left,         \* lightning_until_ms_
    weather_storm_left, \* next_weather_storm_ms_
    grace_left,         \* until uptime_ms passes 90 s
    scene_mode, out, state_pump_on, thermal_throttle, \* state_, as reported
    weather,            \* state_.weather_*
    led, pump,          \* what the LED driver and the relay were last told
    temp,               \* what read_celsius returns
    time_valid          \* what ITimeSource::is_valid returns

scenes   == <<guest_scene_active, moon_scene_active>>
reported == <<scene_mode, out, state_pump_on, thermal_throttle>>
hardware == <<led, pump>>
world    == <<running, temp, time_valid, weather>>
stored   == <<settings, dirty_settings, nvs>>
timers   == <<feed_left, storm_left, weather_storm_left, grace_left>>

vars == <<running, settings, dirty_settings, nvs, guest_scene_active,
          moon_scene_active, feed_left, storm_left, weather_storm_left,
          grace_left, scene_mode, out, state_pump_on, thermal_throttle,
          weather, led, pump, temp, time_valid>>

-----------------------------------------------------------------------------
(* Settings *)

DefaultSettings ==
    [operation_mode    |-> "AUTO_24H",
     resume_scene_mode |-> "AUTO",
     pump_on           |-> TRUE,
     weather_link      |-> FALSE,
     manual            |-> Full,
     presets           |-> [i \in Slots |-> Absent],
     profile           |-> DefaultProfile]

ResumeOf(mode) == IF mode = "AUTO_24H" THEN "AUTO" ELSE "MANUAL"

Loaded == IF nvs = Absent THEN DefaultSettings ELSE nvs

\* A failed save may or may not have replaced the blob: nvs_set_blob can
\* succeed and nvs_commit fail.
Save(in, ok) ==
    \/ ok /\ nvs' = in
    \/ ~ok /\ FlashFaults /\ nvs' \in {nvs, in}

\* Mutant: the result of the save is not looked at.
PersistIfDirty_IgnoresResult(in, dirty) ==
    IF dirty THEN \E ok \in BOOLEAN : Save(in, ok) /\ dirty_settings' = FALSE
             ELSE UNCHANGED nvs /\ dirty_settings' = FALSE

PersistIfDirty(in, dirty) ==
    IF dirty THEN \E ok \in BOOLEAN : Save(in, ok) /\ dirty_settings' = ~ok
             ELSE UNCHANGED nvs /\ dirty_settings' = FALSE

\* Assign the settings, mark them dirty and call persist_if_dirty.
Commit(in) == settings' = in /\ PersistIfDirty(in, TRUE)

-----------------------------------------------------------------------------
(* The light *)

Dark == [palette |-> "dark", level |-> 0]
Look(p, l) == [palette |-> p, level |-> l]

\* What the PWM channels do with a look: brightness is clamped to 0..1, and
\* at brightness 0 every channel is off whatever the colours.
Emitted(look) ==
    IF look.level = 0 THEN Dark
    ELSE Look(look.palette, IF look.level > Full THEN Full ELSE look.level)

Paint(look) == out' = look /\ led' = Emitted(look)

BadWeather(s) == s.weather_link /\ weather \in {"overcast", "thunder"}

AutoLevel(s, hour, throttle) ==
    LET t == Schedule[<<s.profile, hour, throttle>>]
    IN  IF BadWeather(s) THEN Dim[t] ELSE t

WaitForSntp == ~time_valid /\ grace_left > 0

\* Mutant: while SNTP is awaited the light goes out but is reported as it was.
ApplyAutoLight_StaleReport(s, throttle) ==
    \/ /\ WaitForSntp
       /\ led' = Dark
       /\ UNCHANGED out
    \/ /\ ~WaitForSntp
       /\ \E hour \in IF time_valid THEN Hours ELSE {FallbackHour} :
             LET l == AutoLevel(s, hour, throttle)
             IN  Paint(IF l = 0 THEN Dark ELSE Look("schedule", l))

ApplyAutoLight(s, throttle) ==
    \/ /\ WaitForSntp
       /\ led' = Dark
       /\ out' = Look(out.palette, 0)    \* the colours stay
    \/ /\ ~WaitForSntp
       /\ \E hour \in IF time_valid THEN Hours ELSE {FallbackHour} :
             LET l == AutoLevel(s, hour, throttle)
             IN  Paint(IF l = 0 THEN Dark ELSE Look("schedule", l))

-----------------------------------------------------------------------------
(* refresh_live_state_locked *)

\* Mutant: no hysteresis.
Throttle_OnlyHot == temp = "hot"

\* Hysteresis on the water temperature: above 28, below 26.5; in between and
\* without a reading the flag stays.
Throttle == \/ temp = "hot"
            \/ temp \notin {"hot", "cool"} /\ thermal_throttle

WeatherStormDue(s, guest) ==
    /\ s.weather_link /\ weather = "thunder"
    /\ s.operation_mode = "AUTO_24H"
    /\ ~guest
    /\ weather_storm_left = 0 /\ storm_left = 0

\* Mutant: the random part of the pause reaches one unit too far.
ArmWeatherStorm_LongGap(s, guest) ==
    \/ /\ WeatherStormDue(s, guest)
       /\ storm_left' = StormTime
       /\ weather_storm_left' \in GapMin..GapMax + 1
    \/ /\ ~WeatherStormDue(s, guest)
       /\ UNCHANGED <<storm_left, weather_storm_left>>

\* Mutant: the next storm of the weather is not put off.
ArmWeatherStorm_NoGap(s, guest) ==
    /\ storm_left' = IF WeatherStormDue(s, guest) THEN StormTime ELSE storm_left
    /\ UNCHANGED weather_storm_left

ArmWeatherStorm(s, guest) ==
    \/ /\ WeatherStormDue(s, guest)
       /\ storm_left' = StormTime
       /\ weather_storm_left' \in GapMin..GapMax
    \/ /\ ~WeatherStormDue(s, guest)
       /\ UNCHANGED <<storm_left, weather_storm_left>>

\* Mutant: the moon scene goes before the storm.
OwnerOf_MoonFirst(s, guest, moon, storm) ==
    IF guest THEN "SHOW_GUESTS" ELSE IF moon THEN "MOON_TEMP"
    ELSE IF storm THEN "STORM" ELSE ResumeOf(s.operation_mode)

\* Who owns the light.
OwnerOf(s, guest, moon, storm) ==
    IF guest THEN "SHOW_GUESTS" ELSE IF storm THEN "STORM"
    ELSE IF moon THEN "MOON_TEMP" ELSE ResumeOf(s.operation_mode)

\* Mutant: the light is written only when the scene differs from the one
\* reported last.
PaintOwner_OnChange(owner, s, throttle) ==
    \/ owner \in {scene_mode, "STORM"} /\ UNCHANGED <<out, led>>
    \/ /\ owner # scene_mode
       /\ \/ owner = "SHOW_GUESTS" /\ Paint(Look("guests", Full))
          \/ owner = "MOON_TEMP"   /\ Paint(Look("moon", MoonLevel))
          \/ owner = "MANUAL"      /\ Paint(Look("manual", s.manual))
          \/ owner = "AUTO"        /\ ApplyAutoLight(s, throttle)

PaintOwner(owner, s, throttle) ==
    \/ owner = "SHOW_GUESTS" /\ Paint(Look("guests", Full))
    \/ owner = "STORM"       /\ UNCHANGED <<out, led>>    \* left to aq_storm
    \/ owner = "MOON_TEMP"   /\ Paint(Look("moon", MoonLevel))
    \/ owner = "MANUAL"      /\ Paint(Look("manual", s.manual))
    \/ owner = "AUTO"        /\ ApplyAutoLight(s, throttle)

PaintScene(s, guest, moon, storm, throttle) ==
    LET owner == OwnerOf(s, guest, moon, storm) IN
    /\ scene_mode' = IF owner \in {"AUTO", "MANUAL"} /\ feed_left > 0
                     THEN "FEED" ELSE owner
    /\ PaintOwner(owner, s, throttle)

\* Mutant: the pump is computed from the state reported last.
RefreshLiveState_PumpLatch(s, guest, moon) ==
    /\ thermal_throttle' = Throttle
    /\ ArmWeatherStorm(s, guest)
    /\ pump' = (state_pump_on /\ s.pump_on /\ feed_left = 0)
    /\ state_pump_on' = pump'
    /\ PaintScene(s, guest, moon, storm_left' > 0, thermal_throttle')

RefreshLiveState(s, guest, moon) ==
    /\ thermal_throttle' = Throttle
    /\ ArmWeatherStorm(s, guest)
    /\ pump' = (s.pump_on /\ feed_left = 0)
    /\ state_pump_on' = pump'
    /\ PaintScene(s, guest, moon, storm_left' > 0, thermal_throttle')

-----------------------------------------------------------------------------
(* handle_ws_json: one action per command *)

Sent(name) == running /\ name \in Commands

\* What no command touches: the outputs change on the next tick only.
OutputsUntouched ==
    UNCHANGED <<reported, hardware, world, weather_storm_left, grace_left>>

EnterScene(guest, moon) ==
    /\ guest_scene_active' = guest
    /\ moon_scene_active' = moon
    /\ storm_left' = 0

LeaveSpecialScenes == EnterScene(FALSE, FALSE)

\* Mutant: the resume mark is not updated.
SetOperationMode_KeepsResume(m) ==
    /\ Sent("set_operation_mode")
    /\ LeaveSpecialScenes
    /\ Commit([settings EXCEPT !.operation_mode = m])
    /\ UNCHANGED feed_left
    /\ OutputsUntouched

SetOperationMode(m) ==
    /\ Sent("set_operation_mode")
    /\ LeaveSpecialScenes
    /\ Commit([settings EXCEPT !.operation_mode = m,
                               !.resume_scene_mode = ResumeOf(m)])
    /\ UNCHANGED feed_left
    /\ OutputsUntouched

\* Mutant: the storm goes on.
GoManual_KeepsStorm(level) ==
    /\ guest_scene_active' = FALSE /\ moon_scene_active' = FALSE
    /\ Commit([settings EXCEPT !.manual = level,
                               !.operation_mode = "MANUAL",
                               !.resume_scene_mode = "MANUAL"])
    /\ UNCHANGED <<feed_left, storm_left>>
    /\ OutputsUntouched

GoManual(level) ==
    /\ LeaveSpecialScenes
    /\ Commit([settings EXCEPT !.manual = level,
                               !.operation_mode = "MANUAL",
                               !.resume_scene_mode = "MANUAL"])
    /\ UNCHANGED feed_left
    /\ OutputsUntouched

\* The only path on which a level is stored without a clamp.
SetManualRgbw(level) == Sent("set_manual_rgbw") /\ GoManual(level)

LoadPreset(i) ==
    /\ Sent("load_preset")
    /\ settings.presets[i] # Absent
    /\ GoManual(settings.presets[i])

SettingsOnly(name, in) ==
    /\ Sent(name)
    /\ Commit(in)
    /\ UNCHANGED <<scenes, feed_left, storm_left>>
    /\ OutputsUntouched

SetPump(on) == SettingsOnly("set_pump", [settings EXCEPT !.pump_on = on])

SavePreset(i, level) ==
    SettingsOnly("save_preset", [settings EXCEPT !.presets[i] = level])

SetSchedule(p) == SettingsOnly("set_schedule", [settings EXCEPT !.profile = p])

SetFlags(p) == SettingsOnly("set_flags", [settings EXCEPT !.profile = p])

\* set_operation_mode, set_pump and save_preset with an argument they do not
\* understand still retry a save that failed before.
RejectedArgument ==
    /\ \E name \in {"set_operation_mode", "set_pump", "save_preset"} : Sent(name)
    /\ dirty_settings
    /\ PersistIfDirty(settings, dirty_settings)
    /\ UNCHANGED <<settings, scenes, feed_left, storm_left>>
    /\ OutputsUntouched

SceneShowGuests ==
    /\ Sent("scene_show_guests")
    /\ EnterScene(TRUE, FALSE)
    /\ Commit([settings EXCEPT !.resume_scene_mode = "SHOW_GUESTS"])
    /\ UNCHANGED feed_left
    /\ OutputsUntouched

\* Mutant: the guest scene is not ended.
SceneManualMoon_KeepsGuests ==
    /\ Sent("scene_manual_moon")
    /\ EnterScene(guest_scene_active, TRUE)
    /\ Commit([settings EXCEPT !.resume_scene_mode = "MOON_TEMP"])
    /\ UNCHANGED feed_left
    /\ OutputsUntouched

SceneManualMoon ==
    /\ Sent("scene_manual_moon")
    /\ EnterScene(FALSE, TRUE)
    /\ Commit([settings EXCEPT !.resume_scene_mode = "MOON_TEMP"])
    /\ UNCHANGED feed_left
    /\ OutputsUntouched

SceneFeed15min ==
    /\ Sent("scene_feed_15min")
    /\ feed_left' = FeedTime
    /\ UNCHANGED <<stored, scenes, storm_left>>
    /\ OutputsUntouched

\* Ends the other special scenes, but neither resume_scene_mode nor the flash
\* learns of it.
SceneLightning ==
    /\ Sent("scene_lightning")
    /\ guest_scene_active' = FALSE /\ moon_scene_active' = FALSE
    /\ storm_left' = StormTime
    /\ UNCHANGED <<stored, feed_left>>
    /\ OutputsUntouched

SceneEndSpecial ==
    /\ Sent("scene_end_special")
    /\ LeaveSpecialScenes
    /\ feed_left' = 0
    /\ Commit([settings EXCEPT
                 !.resume_scene_mode = ResumeOf(settings.operation_mode)])
    /\ OutputsUntouched

-----------------------------------------------------------------------------
(* import_settings_data_json: the command set_settings *)

Given(field, old) == IF field = Absent THEN old ELSE field

Clamped(level) == IF level # Absent /\ level > Full THEN Full ELSE level

Touched(patch) == \E f \in DOMAIN patch : patch[f] # Absent

Patched(s, patch) ==
    [s EXCEPT
       !.operation_mode    = Given(patch.operation_mode, @),
       !.resume_scene_mode = IF patch.operation_mode = Absent THEN @
                             ELSE ResumeOf(patch.operation_mode),
       !.pump_on           = Given(patch.pump_on, @),
       !.weather_link      = Given(patch.weather_link, @),
       !.manual            = Given(Clamped(patch.manual), @),
       !.profile           = Given(patch.profile, @)]

\* The outcome of this save is ignored: the flag is cleared in any case.
ImportSettings(patch) ==
    /\ Sent("set_settings")
    /\ settings' = Patched(settings, patch)
    /\ IF patch.operation_mode = Absent
       THEN UNCHANGED <<scenes, storm_left, scene_mode>>
       ELSE LeaveSpecialScenes /\ scene_mode' = ResumeOf(patch.operation_mode)
    /\ IF dirty_settings \/ Touched(patch)
       THEN \E ok \in BOOLEAN : Save(settings', ok)
       ELSE UNCHANGED nvs
    /\ dirty_settings' = FALSE
    /\ UNCHANGED <<feed_left, out, state_pump_on, thermal_throttle,
                   hardware, world, weather_storm_left, grace_left>>

-----------------------------------------------------------------------------
(* The tasks *)

\* Mutant: a failed save is not tried again.
Tick_NoRetry ==
    /\ running
    /\ RefreshLiveState(settings, guest_scene_active, moon_scene_active)
    /\ UNCHANGED <<stored, scenes, feed_left, grace_left, world>>

\* aq_tick, every 100 ms.
Tick ==
    /\ running
    /\ RefreshLiveState(settings, guest_scene_active, moon_scene_active)
    /\ PersistIfDirty(settings, dirty_settings)
    /\ UNCHANGED <<settings, scenes, feed_left, grace_left, world>>

\* aq_storm, every 8 ms of a storm: haze or flash.
StormStep ==
    /\ running
    /\ storm_left > 0
    /\ \E l \in 1..Full : Paint(Look("storm", l))
    /\ scene_mode' = "STORM"
    /\ UNCHANGED <<stored, scenes, timers, state_pump_on, thermal_throttle,
                   pump, world>>

\* aq_weather: a fetch succeeded.
WeatherSetResult ==
    /\ running
    /\ weather' \in Reports \ {weather}
    /\ UNCHANGED <<stored, scenes, timers, reported, hardware, running, temp,
                   time_valid>>

-----------------------------------------------------------------------------
(* The world around *)

Less(t) == IF t > 0 THEN t - 1 ELSE 0

Elapse ==
    /\ running
    /\ feed_left + storm_left + weather_storm_left + grace_left > 0
    /\ feed_left' = Less(feed_left)
    /\ storm_left' = Less(storm_left)
    /\ weather_storm_left' = Less(weather_storm_left)
    /\ grace_left' = Less(grace_left)
    /\ UNCHANGED <<stored, scenes, reported, hardware, world>>

\* SNTP answers; it is asked just before the constructor runs.
TimeSync ==
    /\ ~time_valid
    /\ time_valid' = TRUE
    /\ UNCHANGED <<stored, scenes, timers, reported, hardware, running, temp,
                   weather>>

\* The sensor task caches a reading; a sensor that fails later leaves it there.
SensorUpdate ==
    /\ running
    /\ temp' \in Readings \ {temp}
    /\ UNCHANGED <<stored, scenes, timers, reported, hardware, running,
                   time_valid, weather>>

\* A power cut or a restart (watchdog, OTA).  RAM holds the members' initial
\* values when the constructor runs again; the RTC may keep the time.  The
\* uptime counts from the reset: the wait for Wi-Fi, before the constructor,
\* may use up some of the wait for SNTP, or all of it.
PowerLoss ==
    /\ running /\ running' = FALSE
    /\ settings' = DefaultSettings /\ dirty_settings' = FALSE
    /\ guest_scene_active' = FALSE /\ moon_scene_active' = FALSE
    /\ feed_left' = 0 /\ storm_left' = 0 /\ weather_storm_left' = 0
    /\ grace_left' \in 0..SntpGrace
    /\ scene_mode' = "AUTO" /\ out' = Dark /\ state_pump_on' = TRUE
    /\ thermal_throttle' = FALSE /\ weather' = Absent
    /\ led' = Dark /\ pump' = FALSE /\ temp' = Absent
    /\ time_valid' \in {FALSE, time_valid}
    /\ UNCHANGED nvs

\* Before the constructor runs, start() may find NVS full or of a newer version,
\* and erases all of it then.
EraseNvs ==
    /\ ~running
    /\ nvs' = Absent
    /\ UNCHANGED <<settings, dirty_settings, scenes, timers, reported, hardware,
                   world>>

\* Mutant: the moon scene is not resumed.
Boot_ForgetsMoon ==
    /\ ~running
    /\ running' = TRUE
    /\ settings' = Loaded
    /\ guest_scene_active' = (Loaded.resume_scene_mode = "SHOW_GUESTS")
    /\ moon_scene_active' = FALSE
    /\ RefreshLiveState(Loaded, guest_scene_active', moon_scene_active')
    /\ UNCHANGED <<dirty_settings, nvs, feed_left, grace_left, temp,
                   time_valid, weather>>

\* The constructor: load, resume the stored scene, first refresh.
Boot ==
    /\ ~running
    /\ running' = TRUE
    /\ settings' = Loaded
    /\ guest_scene_active' = (Loaded.resume_scene_mode = "SHOW_GUESTS")
    /\ moon_scene_active' = (Loaded.resume_scene_mode = "MOON_TEMP")
    /\ RefreshLiveState(Loaded, guest_scene_active', moon_scene_active')
    /\ UNCHANGED <<dirty_settings, nvs, feed_left, grace_left, temp,
                   time_valid, weather>>

-----------------------------------------------------------------------------
Init ==
    /\ running = FALSE
    /\ settings = DefaultSettings /\ dirty_settings = FALSE
    /\ guest_scene_active = FALSE /\ moon_scene_active = FALSE
    /\ feed_left = 0 /\ storm_left = 0 /\ weather_storm_left = 0
    /\ grace_left \in 0..SntpGrace
    /\ scene_mode = "AUTO" /\ out = Dark /\ state_pump_on = TRUE
    /\ thermal_throttle = FALSE /\ weather = Absent
    /\ led = Dark /\ pump = FALSE /\ temp = Absent
    /\ nvs = Absent
    /\ time_valid = FALSE

Command ==
    \/ \E m \in Modes : SetOperationMode(m)
    \/ \E l \in 0..MaxLevel : SetManualRgbw(l)
    \/ \E on \in BOOLEAN : SetPump(on)
    \/ \E i \in Slots, l \in Levels : SavePreset(i, l)
    \/ \E i \in Slots : LoadPreset(i)
    \/ \E p \in Profiles : SetSchedule(p) \/ SetFlags(p)
    \/ RejectedArgument
    \/ SceneShowGuests
    \/ SceneManualMoon
    \/ SceneFeed15min
    \/ SceneLightning
    \/ SceneEndSpecial
    \/ \E patch \in Patches : ImportSettings(patch)

Environment == Elapse \/ TimeSync \/ SensorUpdate \/ PowerLoss

Next == Command \/ Tick \/ StormStep \/ WeatherSetResult \/ EraseNvs \/ Boot
        \/ Environment

Spec == Init /\ [][Next]_vars

(* Fairness: the tasks are endless loops around vTaskDelay, time passes, and *)
(* the board boots whenever it has power.                                    *)
Fairness == WF_vars(Tick) /\ WF_vars(StormStep) /\ WF_vars(Elapse) /\ WF_vars(Boot)

\* Flash faults pass: a tick that keeps retrying the save succeeds at last.
FlashRecovers == SF_vars(Tick /\ ~dirty_settings')

FairSpec == Spec /\ Fairness
FairFlashSpec == FairSpec /\ FlashRecovers

-----------------------------------------------------------------------------
(* Safety *)

\* Every variable keeps its type.
TypeOK ==
    /\ running \in BOOLEAN
    /\ settings \in Settings
    /\ dirty_settings \in BOOLEAN
    /\ nvs \in Settings \cup {Absent}
    /\ guest_scene_active \in BOOLEAN /\ moon_scene_active \in BOOLEAN
    /\ feed_left \in 0..FeedTime
    /\ storm_left \in 0..StormTime
    /\ weather_storm_left \in 0..GapMax
    /\ grace_left \in 0..SntpGrace
    /\ scene_mode \in Scenes
    /\ out \in Looks /\ led \in Looks
    /\ state_pump_on \in BOOLEAN /\ pump \in BOOLEAN
    /\ thermal_throttle \in BOOLEAN
    /\ weather \in Reports \cup {Absent}
    /\ temp \in Readings \cup {Absent}
    /\ time_valid \in BOOLEAN

\* The special scenes exclude one another: the two scene flags are never both
\* set, and no storm runs under the guest scene, which would hide it on every
\* tick while aq_storm went on flashing (two writers of one light).
SceneExclusive ==
    /\ ~(guest_scene_active /\ moon_scene_active)
    /\ guest_scene_active => storm_left = 0

\* What get_state, the broadcasts and MQTT report is what the hardware does,
\* on every path that writes either of them.
ReportHonest == running => led = Emitted(out) /\ pump = state_pump_on

\* The scene that runs is the one the settings say to resume after a restart,
\* and a plain resume mark agrees with the operation mode.
SceneRemembered ==
    running =>
      /\ guest_scene_active => settings.resume_scene_mode = "SHOW_GUESTS"
      /\ moon_scene_active => settings.resume_scene_mode = "MOON_TEMP"
      /\ settings.resume_scene_mode \in {"AUTO", "MANUAL"} =>
           settings.resume_scene_mode = ResumeOf(settings.operation_mode)

\* Settings that are not marked dirty are the ones a restart would load: no
\* acknowledged change is waiting for a save nobody will do.  (PLAN.md:36:
\* "settings are saved to NVS after changes".)
CleanMeansStored == running /\ ~dirty_settings => Loaded = settings

\* Of all commands and tasks, set_settings alone can leave settings that are
\* neither stored nor marked to be: every other save that fails is remembered.
ImportAloneForgets ==
    [][CleanMeansStored /\ ~CleanMeansStored'
         => \E patch \in Patches : ImportSettings(patch)]_vars

\* When no client asked for a storm, one runs only in automatic mode: choosing
\* manual light by any route also ends the storm the weather had started.
StormOnlyInAuto ==
    "scene_lightning" \notin Commands =>
      (storm_left > 0 => settings.operation_mode = "AUTO_24H")

\* When no client asked for a storm, one always ends well before the weather
\* may start the next.
CalmBetweenStorms ==
    "scene_lightning" \notin Commands =>
      (storm_left > 0 => weather_storm_left - storm_left >= GapMin - StormTime)

\* "Only this task drives the light during a storm" (aquarium_app.cpp): while a
\* storm goes on, nothing but a step of aq_storm changes the light.
StormOwnsLight ==
    [][storm_left > 0 /\ storm_left' > 0 /\ led' # led => StormStep]_vars

\* Once overheated, the water keeps the scheduled light throttled until a cool
\* reading, whatever happens to the sensor in between.
ThrottleHolds ==
    [][(/\ running /\ running' /\ thermal_throttle /\ temp # "cool"
        /\ led' # led /\ led'.palette = "schedule")
       => \E hour \in Hours :
            led'.level <= Schedule[<<settings.profile, hour, TRUE>>]]_vars

-----------------------------------------------------------------------------
(* Liveness *)

Owner == OwnerOf(settings, guest_scene_active, moon_scene_active, storm_left > 0)

Shown(owner) ==
    CASE owner = "SHOW_GUESTS" -> led = Look("guests", Full)
      [] owner = "STORM"       -> led.palette = "storm"
      [] owner = "MOON_TEMP"   -> led = Look("moon", MoonLevel)
      [] owner = "MANUAL"      -> led = Emitted(Look("manual", settings.manual))
      [] owner = "AUTO"        -> led.palette \in {"dark", "schedule"}

\* The light comes to show the scene that owns it, unless the scene changes
\* first.
LightFollowsScene ==
    \A owner \in Resume \cup {"STORM"} :
      (running /\ Owner = owner) ~> (~running \/ Owner # owner \/ Shown(owner))

\* A feeding pause ends by itself: if the pump is wanted, nobody feeds any more
\* and the power stays, the pump runs for good.
PumpResumes ==
    (/\ <>[][~SceneFeed15min]_vars
     /\ <>[](running /\ settings.pump_on))
    => <>[]pump

\* A change is stored at last, although saves may fail, unless power is cut.
EventuallyStored == dirty_settings ~> ~dirty_settings

-----------------------------------------------------------------------------
(* What is promised of the scenes *)

SpecialOf(guest, moon) ==
    IF guest THEN "guests" ELSE IF moon THEN "moon" ELSE "none"

\* What a restart would resume with settings s.
Memory(s) == [mode    |-> s.operation_mode,
              special |-> SpecialOf(s.resume_scene_mode = "SHOW_GUESTS",
                                    s.resume_scene_mode = "MOON_TEMP")]

Arbiter == INSTANCE SceneArbiter WITH
    Faults  <- FlashFaults,
    on      <- running,
    mode    <- settings.operation_mode,
    special <- SpecialOf(guest_scene_active, moon_scene_active),
    storm   <- storm_left > 0,
    marked  <- Memory(settings).special,
    saved   <- Memory(Loaded)

\* The service implements the scene arbiter, also when saves fail: commands,
\* ticks, storms, power cuts and restarts are steps of it or stutter.
ImplementsArbiter == Arbiter!ASpec
=============================================================================
