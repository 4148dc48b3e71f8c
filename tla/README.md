# TLA+ models of the aquarium controller

The program is the firmware of an ESP32 that runs an aquarium: an RGBW lamp
with a day plan and special scenes, a pump, a water sensor, the weather of a
city, and clients on WebSocket and MQTT. These modules describe what the
firmware under `src/components/aquarium_app` does, TLC checks them on small
instances, and TLAPS proves their safety properties for every value of their
constants.

Paths below are relative to `src/components/aquarium_app`; `docs/` and `PLAN.md` are those of `src/`.

## Inventory

| component | state | operations | interacts by |
|---|---|---|---|
| **DeviceService** (`src/device_service.cpp`, `include/model.hpp`) | settings and their dirty flag, two scene flags, deadlines of feeding, storm and next weather storm, the reported state | 14 commands of `handle_ws_json` that change state, `set_settings`, `tick`, `tick_storm_fast`, `weather_set_result`, constructor | called from every task; one mutex, with timeouts |
| **Storm engine** (`drive_storm_fast_locked`) | the strike, its flickers and its fade, the next strike | one step every 8 ms in a storm, 150 ms otherwise | writes the lamp and the reported state |
| **ScheduleEngine** (`src/schedule_engine.cpp`) | none | `compute(settings, time)` | called by the automatic light |
| **Weather task** (`src/aquarium_app.cpp`, `src/weather_client.cpp`) | city, coordinates, last city | geocode, fetch, hand over, sleep | reads the city from and writes the result to DeviceService |
| **Settings store** (`src/nvs_store.cpp`) | one blob in flash | load, save | called under the service's mutex |
| **Light output** (`src/rgbw_ledc.cpp`) | duty of four channels | `set_rgbw`, `turn_off` | called under the service's mutex |
| **Pump relay** (`src/pump_gpio.cpp`) | one pin | `set_on` | the same |
| **Water sensor** (`src/temperature_ds18b20.cpp`) | cached reading | sensor task, `read_celsius` | polled by the refresh |
| **Time source** (`src/esp_time_source.cpp`) | clock, time zone | `now_local`, `is_valid` | polled by the refresh |
| **Start-up** (`src/aquarium_app.cpp`) | tasks `aq_tick`, `aq_storm`, `aq_weather` | order of the start | creates everything else |
| **MQTT hub** (`src/mqtt_client_hub.cpp`, `src/mqtt_nvs.cpp`) | client handle, configuration, topics, queue of 8 commands | events, drain, publish, restart | `aq_tick` drains the queue into API dispatch |
| **Home Assistant bridge** (`src/mqtt_ha_bridge.cpp`) | none of its own; retained topics | `light/set`, `pump/set`, state publishing | called on the MQTT task |
| **API dispatch** (`src/api_dispatch.cpp`) | none | `get_settings`, `set_settings`, `set_mqtt_config`, all else to `handle_ws_json` | called by portal and hub |
| **HTTP/WebSocket portal** (`src/http_ws_portal.cpp`) | the one descriptor broadcasts go to | page, handshake, frames; broadcasts once a second | calls API dispatch; `aq_tick` queues work for httpd |
| **OTA update** (`src/firmware_http_update.cpp`) | the two slots and their states in flash | upload, choice of the slot, confirmation | restarts the board; the bootloader judges |
| **Wi-Fi** (`src/wifi_station.cpp`) | one bit | events, wait | the start waits for the bit without a limit |
| **State as JSON** (`src/json_state.cpp`) | none | formatting | called by portal and hub |
| **Web panel** (`web/index.html`) | connection, what it shows, a copy of the settings | asks, commands, reconnects, whole-form saves | a client of the portal |

What is hard here:

- *Interleaving.* Six tasks (httpd, MQTT, `aq_tick`, `aq_storm`, `aq_weather`,
  the sensor) act on one service. Two of them write the lamp, at 100 ms and at
  8 ms.
- *Long command sequences.* Scenes, mode changes, feeding and storms overlap;
  each command sets some of six variables and leaves the others.
- *Crash and restart.* The scene is resumed from flash. A command that changes
  the scene but not its mark shows only after the next power cut. An upload may
  be cut at any point, and the image after it may be of another age than the
  settings in flash. A start that finds NVS full, or of a newer version, erases
  all of it (`src/aquarium_app.cpp:33`).
- *Partial failure.* A save can fail, and can have written the blob although it
  reports failure.
- *Stale state.* Weather, temperature and city are read long before they are
  used, and keep their value when their source fails. The descriptor of the
  portal outlives its connection, and the number is given to another.
- *Two halves.* `light/set` is two commands, each of which may be refused
  without anybody noticing.
- *Boundaries.* Days that end before they start, end past midnight, or are
  shorter than their ramps; percentages to 200; hours across midnight.

What makes each component correct:

- DeviceService: one scene owns the light; the state reported is that of the
  hardware; a restart resumes the scene chosen last; an acknowledged change is
  in flash or will be retried; the weather's storms stay in automatic mode and
  keep their pause; overheated water stays throttled; feeding ends.
- ScheduleEngine: brightness bounded whatever the percentages; night light on
  the right side of midnight; day between twilights; the sun comes back.
- Weather task: coordinates always belong to the city; a city that stays gets
  its weather.
- MQTT hub: commands keep their order and the queue its bound, none waits for
  ever, one client is left after a change of broker and none is used after it
  is destroyed.
- Home Assistant bridge: the light it set holds until somebody chooses another,
  and it comes to know what rests.
- Portal: the page that spoke last has the broadcasts, in order, and comes to
  show the device as it is.
- Update and start: there is an image to start at every moment, the running one
  is untouched, settings survive updates unless NVS itself had to be erased, and
  the board serves again.
- Storm engine: a flash is not dark within, and strikes are apart.

`PROJECT.json` lists the same components with what is modelled of each, and
every hazard at its line with the properties that watch it.

## Modules

| module | what it is |
|---|---|
| `DeviceService` | scenes, commands, tick, storm step, flash, power cuts |
| `SceneArbiter` | what the service promises of scenes, in 88 lines |
| `HaBridge` | the Home Assistant bridge, composed with all of `DeviceService` |
| `LightningStorm` | the light inside a storm, step by step |
| `ScheduleEngine` | the four day plans, driven by a clock |
| `WeatherTask` | the loop of `aq_weather` against a user who changes the city |
| `MqttHub` | the command queue and the one MQTT client, on three threads |
| `WsPortal` | pages, connections, the one descriptor, queued broadcasts |
| `ImageTrial` | what an update promises of images |
| `FirmwareUpdate` | bootloader, start, Wi-Fi, upload, settings of images of two ages |
| `MC...` | values for TLC |
| `DeviceServiceProofs` | types, scenes, report, restart, storm ownership; weather storms, throttle; flash, and the refinement to `SceneArbiter` |
| `HaBridgeProofs` | the composition is a `DeviceService`; the light holds |
| `ScheduleProofs`, `WeatherTaskProofs`, `MqttHubProofs`, `WsPortalProofs`, `LightningStormProofs` | the safety of each |
| `FirmwareProofs` | the safety of start and update, and the refinement to `ImageTrial` |

`HaBridge` EXTENDS `DeviceService` and `DeviceService` has the arbiter by
INSTANCE, as `FirmwareUpdate` has `ImageTrial`. The other modules meet it at a named interface: `Schedule` for the day
plan, `WeatherSetResult` for the weather, `StormStep` for the strikes, commands
for hub and portal, the blob for the update.

### DeviceService

Every public method holds `mutex_` from first read to last write, so each is one
action; giving up on the mutex ("busy") is a stuttering step. One action stands
for one command, with the saves it makes. What is kept and what is abstracted:

- `settings` keeps the operation mode, resume mark, pump switch, weather link,
  manual light, presets, and one value `profile` for all that the schedule, time
  zone and city fields hold. `Schedule` (a constant function) says how bright
  the day plan is for a profile, an hour and a throttle; `ScheduleEngine` is
  about that function.
- `feed_left`, `storm_left`, `weather_storm_left`, `grace_left` are the code's
  deadlines as time left. The model's clock may be late by as much as it likes,
  as the tick may be.
- A look is a palette (who chose the colours) and a level. `out` is what is
  reported, `led` what the LEDC driver was told; they are written separately,
  as in the code, which is why `ReportHonest` says something: one branch of
  `apply_auto_light_locked` calls `turn_off` and sets the report by hand.
- `nvs` is the blob. A failed save leaves it old or new (`nvs_set_blob` may
  succeed and `nvs_commit` fail).
- `Boot` is the constructor: load, resume, first refresh. `PowerLoss` is any
  reset; RAM is fresh, the blob stays, the RTC may keep the time. `EraseNvs` is
  what `start()` may do with the blob between the two.
- `StormStep` is one step of the storm engine, which may show any level from 1
  up: the strikes inside a storm are `LightningStorm`'s. `aq_tick` arms weather
  storms in `ArmWeatherStorm`.

`SceneArbiter` knows only whether the board is on, its mode, its special scene,
whether a storm runs, the scene marked to be resumed, and what flash would
resume. A save that fails leaves what an earlier choice had stored, mode and
scene together; it may be made up for later. `EraseFlash` leaves the factory's
choice. The refinement maps scene flags to
one `special` value, the mark in RAM to `marked`, and `nvs` through `Loaded` to
`saved`.

### HaBridge

`light/set` is `LightSetMode`, then `LightSetLevel`; either may be `Busy`, which
changes nothing, and any command of others, tick or power cut may come between.
The MQTT task handles one message at a time, so `light_set` is the only place
between the two. `PublishStates` and `PublishDefaults` are the state publication
with a good snapshot and with one that gave up on the mutex; the broker keeps
what it was told last. A state that is not published (the broker is away) is a
step not taken. `kept` is history: the level Home Assistant chose, until anybody
chooses a light, by which the code's scenes, modes, levels, presets and forms
count, and feeding, pump and the end of a scene do not. Where saves may fail, it
ends with a power cut; where they do not, it outlives it, unless NVS is erased.

### LightningStorm

Each of `lightning_until_ms_`, `lightning_flash_end_ms_`,
`lightning_next_strike_ms_` and `lightning_next_spike_ms_` is kept as the time
left until it. A step comes some `Lags` after the last, or `MissLags` after one
that found the mutex busy: such a step answers "no storm", and the task sleeps
150 ms. `Strike`, `Flash`, `Between` and `Over` are the branches of
`drive_storm_fast_locked`; `ArmStorm` may come in the middle of a storm. A
random number is any of the ends of its range. `dark` is history.

### ScheduleEngine

`compute_plants`, `compute_fluval`, `compute_bright_day` and `compute_custom`
differ in ramp lengths, ramp ends and in whether a short day is stretched, so
each is a record, and phase and brightness are computed once. Minutes and
percentages are integers; a ramp rounds down. Colours follow from the phase and
are left out. A clock looks at the plan every `Step` minutes, and the throttle
toggles at any time.

### WeatherTask

Geocoding, fetching and handing over are phases of their own, because each takes
seconds during which the city may change. Both calls into the service can time
out: `weather_get_city` then answers no city, `weather_set_result` drops the
result without telling.

### MqttHub

Three threads of the program reach the hub: the start (`main`), `aq_tick`, and
`httpd` when a panel sends `set_mqtt_config`; besides, each client has a task
that delivers its events. The queue has a mutex, so its operations are atomic.
`s_mqtt`, `s_cfg` and `s_mqtt_connected` have none, so every access is a step,
and `pc` says where a thread is: about to check, halt, destroy or clear the
handle, to clear the flag, to load, make or start, or to publish or answer. In
`stop`, the check of `s_mqtt` (`:249`) is `CheckClient` and the call (`:250`) is
`StopClient`.

- Clients of `esp_mqtt` are external: an address that is alive, started, online,
  and the settings it was made with. Stopping waits for the client's task.
- `Reset` keeps the configuration in flash, or finds MQTT off: the start that
  follows may have to erase NVS.
- A call with a destroyed handle is undefined. It does nothing in the model, or
  a `Reset` follows, as one may at any time.
- Commands are numbered in order of arrival, with `executed` the last one
  dispatched. What they do is `DeviceService`'s; only `set_mqtt_config` is told
  apart here.
- A command may be lost on arrival: the mutex was not had in 50 ms, or another
  thread was rebuilding the topic it is compared with.
- `panel` says whether a panel sends `set_mqtt_config` in a behaviour. The
  properties of the handle are stated for behaviours where none does, since the
  code keeps them only there (`MqttTwoSavers`); queue properties hold in all.

### WsPortal

httpd is one task, so a connection accepted, a frame handled and a work item run
are one action each. `aq_tick` is another: `Snapshot`, then `QueueWork`, which
reads the descriptor only then, or `WorkLost`. The device is a number that grows
with each change; 0 is the default state of a snapshot that gave up.

- `sess` says whose a descriptor is. Accepting takes a free one or, when there is
  none, closes a connection (`lru_purge_enable`; here any, as use is not
  tracked). A page may leave without a word: its connection stays, dead, until
  it expires.
- `s_ws_fd` is set at each handshake and frame and never cleared, as in the code.
- A page asks when it connects and after each answer to a command, and connects
  again when its connection is closed.
- One page is followed (`Viewer`): what it shows, and the last state a broadcast
  told it. Any page will do, so what holds of it holds of all.

### FirmwareUpdate

`slot`, `boot_slot`, `img_state` and `blob` are flash; the rest is lost by
`Reset`. The steps of the start are `Bootloader` (external), `OpenNvs`,
`Confirm`, the wait for the bit of `wifi_station`, and `StartServices`. `OpenNvs`
keeps the blob or erases it: `nvs_flash_init` answers "no free pages" or "new
version found" for reasons that are not in this repository, so it may do so at
any start, with any image. The upload handler is a
phase and an image; the handler runs on the one task of httpd, so there is one.
Images differ in what they come to (good, dead before their confirmation, dead
after it) and in the layout of their settings; `Load` is `NvsSettingsStore::load`
for a blob that is shorter, equal or longer. Whether the bootloader rolls back is
a parameter: the code confirms images, but no configuration in the repository
turns the rollback on. `chosen`, `strayed` and `erased` are history: what the
user set last; whether she went back to a shorter layout, or a confirmation could
not be written, which the code does not promise to survive; and whether a start
erased NVS and nothing was saved since. `SettingsKept` promises what was chosen
where neither happened, and the defaults, whole, where NVS was erased.

`ImageTrial` has no slots: a current image, a candidate on trial, whether it has
had its start, and the image that runs. The refinement takes the current image
from the slot chosen last when that is settled, and from the other one while the
chosen one has to prove itself or was given up; writing the other slot does not
show in it.

## Runs

| run | asks | result |
|---|---|---|
| `DeviceScenes` | scene safety, honest report, storm ownership, the refinement, and who forgets a choice that was not stored, under scene commands, forms, weather, SNTP, failing saves and power cuts | holds, 607 thousand states |
| `DeviceStore` | settings not dirty are in flash, with failing saves and every command that saves; what was not saved is stored at last; throttle held through lost readings and feeding | holds, 175 thousand |
| `HaLight` | Home Assistant's light holds and it learns what rests, among other clients, thunder, feeding and power cuts; weather storms only in automatic mode and apart; the light comes to show its owner, the pump runs again | holds, 119 thousand |
| `ScheduleDay` | brightness bound, night light across midnight, twilights; the sun rises every day | holds, 498 thousand |
| `WeatherRounds` | coordinates belong to the city; a lasting city gets its weather | holds |
| `MqttQueue` | queue bound, order and progress through restarts of client and board; one healthy client and no stale handle without a panel | holds, 320 thousand |
| `WsPages` | the speaker has the broadcasts, in order, and shows a state that rests | holds, 289 thousand |
| `FirmwareSlots` | an image to start at every moment, settings kept unless NVS is erased, service again; the update is a trial of images, so that no upload touches the running one | holds, 74 thousand |
| `StormStrikes` | a steady flash, a pause before each strike, with late and missed steps and storms armed anew | holds, 723 thousand |
| `ImportLosesSave` | does `set_settings` keep what `DeviceStore` shows of the others? | violated |
| `WeatherStuck` | does the task keep asking for a configured city? | violated |
| `MqttTwoSavers` | does `set_mqtt_config` on `httpd` reconnect, whatever the other threads do? | violated |

### Bounds

No counter grows without end, so no state constraint is used: the deadlines
count down from constants, and the clock wraps.

- *Times.* `FeedTime = 1`, `StormTime = 1`, pauses of 2 and 3, `SntpGrace` 0 or
  1. Only expiry and the order storm end < pause end matter, so a storm can be
  under way, over, or over with the pause running.
- *Levels.* 0, half and full in `DeviceStore`: half is needed for the throttle to
  be seen. `DeviceScenes` and `HaLight` have 0 and 1: they are about who owns or
  chose the light, not how bright it is. Levels beyond full, which
  `set_manual_rgbw` stores and the LEDC driver clamps, are in the theorems, which
  hold for any `MaxLevel`, and in `ImportLosesSave`.
- *Hours.* A dark one and a bright one; the plan itself is `ScheduleDay`'s.
- *Commands.* Each run enables those its question concerns; between the runs
  every command is sent. Whether `scene_lightning` is sent is part of the
  question in `StormOnlyInAuto` and `CalmBetweenStorms`.
- *Forms.* The weather link alone, the mode alone; a full form with an over-range
  level in `ImportLosesSave`.
- *Plans.* All programs, starts, ends and moon hours of 0, 9, 10, 14, 21 and 24
  h: ordinary, inverted, empty, one-hour and midnight-crossing days; percentages
  at default, largest, zero and acclimating. A step of 20 minutes meets both
  halves of every ramp (40, 60 and 90 minutes).
- *Cities.* Two the geocoder knows and one it does not; a retry of 1 and a
  period of 3 so the two delays differ.

- *MQTT.* A queue of two and three commands: it overflows once with a command
  behind. Two brokers and MQTT off, so a new client can be for the old settings
  or the new. One address in `MqttQueue`, so that a stale handle and a new client
  coincide whenever they can; two in `MqttTwoSavers`, so that two clients can be
  alive.
- *Portal.* Two browsers over two descriptors: the third connection purges one,
  and either page can come to have the other's descriptor. Two messages in the
  socket, two changes of the device: a broadcast can wait behind another and be
  older than what the page has asked for.
- *Images.* The one that was flashed and three newer with more settings: one
  good, one dead early, one dead late. Going back to the first is a downgrade,
  and every failed update has both kinds of failure.
- *Strikes.* Time in units of 30 ms and light in twentieths; of each range of the
  code its ends, of the gaps those within a cluster (120 and 650 ms) and those
  between clusters (900 and 5500). Steps of one unit or two stand for 8 ms and a late one, 7 units
  for the 150 ms of a missed step with a wait for the mutex. A storm of 60 units
  instead of 30 s holds several strikes of each kind and its end in each of them;
  a long gap outlasts it, and the next storm is armed within.

Deadlock is checked in every run.

### Fairness

- `WF(Tick)`, `WF(StormStep)`: `aq_tick` and `aq_storm` are endless loops around
  `vTaskDelay` (`src/aquarium_app.cpp:72-101`). A step refused by the mutex is
  retried at the next period, and the lock is held for less than its timeout.
- `WF(Elapse)`: time passes. `WF(Boot)`: a board with power boots.
- `FlashRecovers` (strong, `DeviceStore` only): faults pass, so a save that
  is tried for ever succeeds once. Without it nothing could be promised.
- WeatherTask: weak fairness of the loop, since requests have timeouts; strong
  fairness of a successful geocoding (for a known city), fetch and mutex, for
  the same reason as above.

- MqttHub: weak fairness of `aq_tick` and of the start, which are one sequence of
  calls that return; strong fairness of `DrainBegins` and `Dispatch`, because the
  loop drains at every turn and finds the mutex free again and again (it is held
  for a copy of one string). None of `httpd`, of the broker, or of the events.

- HaBridge: the fairness of the tasks, and strong fairness of `PublishStates`:
  `aq_tick` publishes every 4 s, and now and then with the broker connected and
  the mutex free. None of `PublishDefaults`, of messages, or of others.
- WsPortal: if there is a descriptor again and again, `aq_tick` queues again and
  again a broadcast of a real state (it tries once a second; mutex, memory and
  socket are free now and then), and httpd runs its work. None of pages.
- FirmwareUpdate: weak fairness of the start and of the events of Wi-Fi, strong
  fairness of `StartServices` (an address may come and go; one that is there
  again and again is seen, as the wait is woken by the bit), weak fairness of the
  restart. None of uploads, of the router, or of power.

No fairness is assumed of clients, of SNTP, of the sensor or of power.
`LightningStorm` has none: it is about what a step may do.

## Proofs

For every value of the constants that satisfies the named assumptions of the
module. Those of `DeviceService` say that constants have their types, dimming
never brightens, a storm is shorter than the shortest pause, and "absent" is not
a settings record. Those of `LightningStorm` say that a fade is no longer than
its flash, no flash is darker than the ambient light, no storm starts with a
strike sooner than every gap (first strikes come after 300 ms at least,
`src/device_service.cpp:247`, the gap of a cluster may be 120, `:165`), and some
lag is the latest. The others say that constants
have their types, and that "none" and "blank" are no values of what they stand
beside.

| theorem | states |
|---|---|
| `TypeCorrect` | `DeviceService`: `Spec => []TypeOK` |
| `SceneCorrect` | `Spec => []SceneInv` |
| `ScenesExclude`, `ReportIsHonest`, `SceneIsRemembered` | the three scene invariants, also when saves fail |
| `StormOwnsTheLight` | only `aq_storm` changes the light during a storm |
| `WeatherStormsOnlyInAuto`, `WeatherStormsSpaced` | the weather's storms |
| `ThrottleIsHeld` | the throttle through any sensor failure |
| `CleanIsStored` | settings not dirty are in flash, if saves never fail or `set_settings` is not sent |
| `OnlyImportForgets` | no step but `set_settings` leaves a choice neither in flash nor marked to be stored, whatever fails |
| `ServiceImplementsArbiter` | `Spec => Arbiter!ASpec`, also when saves fail |
| `BridgeImplementsService` | `HaSpec => Spec`: with its bridge the device is still a `DeviceService`, so that all of the above holds of it |
| `LightIsHeld` | the light of Home Assistant holds; if saves do not fail and NVS is not erased, through restarts |
| `StormType`, `FlashIsSteady`, `PauseIsKept` | the light inside a storm within its bounds, no flash dark before its fade, a dark pause before each strike, for any kinds, lengths, gaps and lags |
| `ScheduleType` | brightness within 1.0, and within 30 % by night, for every plan |
| `NightLightOnArc` | the night light on its arc of the clock, for every plan and every minute |
| `TwilightIsSeen` | no full day without a sunrise before it and a sunset after, for every plan, if the clock is looked at every 40 minutes |
| `TwilightIsMonotone` | no step back within a twilight, for every plan |
| `HubType`, `QueueInOrder` | queue bound and order, for any capacity and any number of commands |
| `ClientIsReplaced`, `ConnectedIsHonest`, `HandleIsNeverStale` | the MQTT client, where no panel reconfigures it |
| `SpeakerIsServed`, `BroadcastsStayInOrder` | the portal, for any number of pages and descriptors and any length of the queue |
| `WeatherTaskType`, `WeatherIsOfItsCity` | the weather task, for any cities and delays |
| `FirmwareType`, `BoardBoots`, `RunningIsWhole` | start and update, for any set of images |
| `UpdateIsATrial` | `Spec => Trial!ASpec`: the update implements `ImageTrial` |
| `SettingsAreKept` | the user's settings through restarts, updates and rollbacks, for any set of images, unless the user goes back to a shorter layout or a confirmation cannot be written; after a start that erased NVS, the defaults until something is saved |

*The argument.* None of the scene invariants is inductive alone. `SceneInv`
adds:

- `MarksAgree`: the resume mark agrees with the mode in RAM *and in flash*. A
  boot copies the blob, so without the second half the first is lost at a boot.
  It survives failed saves because a save leaves the old blob or the new one,
  and an erased NVS because the defaults agree, too.
- `OffIsFresh`: a board without power has the members' initial values, so a
  boot cannot inherit a storm under a guest scene.
- `LightHonest` without the guard `running`: a tick under a storm writes neither
  lamp nor report, so the two must have agreed before.

`WeatherInv` adds the two storm properties to `SceneInv`: what holds of a storm
is established when it is armed, and every route to manual light ends it.
`StoreInv` adds `CleanMeansStored`; its hypothesis names the one command that
breaks it. `OnlyImportForgets` is what is left of it when that command
is sent too: every other step that ends with clean settings has stored them, or
found them clean and stored. The refinement
rests on `SceneInv` alone and splits on the 15 commands and the tasks: each is a
step of the arbiter or leaves its six variables alone. A save that fails maps to
a step that keeps `saved`; a tick that stores what was left maps to `SaveAgain`,
or to `StormByWeather` when the weather starts a storm in the same tick; an
erased NVS maps to `EraseFlash`.

- *Bridge.* Each of its actions is an action of the service or leaves it alone,
  which is the refinement. `BridgeInv` then says of a level that is kept that it
  is in RAM in manual mode with no scene marked or shown, that no storm runs over
  it, and, without faults, the same of flash: a tick paints it, thunder is not
  looked at in manual mode, a boot takes it from flash. Without faults nothing is
  ever dirty, which says that flash has what RAM has.
- *Day plan.* `DayInv`: phase and brightness are those of the hour. What is left
  is arithmetic. Every plan has a start, an end, an end of the sunrise and a
  start of the sunset (`Points`), with ramps of 40 to 90 minutes; the lemmas are
  stated over such points, for numbers, and `PlanPoints` takes them to plans.
- *Hub.* `QueueInv`: the numbers in the queue grow, from above the last one
  dispatched to at most the last that arrived. `HandleInv`, where no panel
  reconfigures: one thread at most replaces the client, at each of its steps the
  handle, the clients alive and the flag are what `Stage` says of that step, and
  they are `Replaced` when none does.
- *Portal.* `SpeakerInv` adds `Connections`: the descriptors of a page that is
  connected are one and no more. `OrderInv`: states in the queue are in order,
  not older than what was heard, not newer than the snapshot in hand or the
  device; default states, which are numbered 0, are exempt.
- *Update.* `FlashInv` adds `Slots`, what a slot may hold at each phase of an
  upload, and `Running`, what the running slot is to the one chosen. `KeptInv`
  says of the settings that what is in flash is what the user chose, that there
  is nothing in flash after it was erased, and that
  the image of every slot that may be started has a layout long enough to read
  it: the chosen slot unless it was given up, the other while the chosen one has
  yet to prove itself. Without the second half a restart could lose what the
  first one says. It rests on `FlashInv`, which tells which slots those are.
  The trial of images is a consequence of `FlashInv`: it tells what the other
  slot holds when the choice moves to it, and which image runs when it is proved
  or given up.
- *Storm.* `TypeOK` is inductive as it stands, by arithmetic on fades and
  flickers. `SteadyFlash` is inductive on top of it: a strike and a
  flicker show no less than the floor, and only the fade lowers it. The pause is an action property, and the
  invariant it needs is `StrikeLeavesRoom`: while no step is missed, the time
  until the next strike is not less than what remains of the flash and of the
  dark time after it, so that a strike finds the gap behind it.
- *Weather.* `LocationInv` adds that coordinates that count as found are those of
  `last_city`: then a city that differs is geocoded first, and one that does not
  needs no new search.

*Only model-checked:* liveness (`LightFollowsScene`, `PumpResumes`,
`EventuallyStored`, `HaLearns`, `SunReturns`, `CityArrives`, `CommandsLeave`,
`SpeakerLearns`, `ServesAgain`), since the prover does not handle fairness. Every
invariant and every other action property the passing runs check is a theorem. `TypeOK` of `WeatherTask` is
a theorem only, as is `RunningImageWhole`, which `ImplementsTrial` says more
strongly. `HaLight` has no failing saves; that the light holds through them until
the power is cut is proved.

## Where code and documents disagree

Shown by runs:

1. `src/device_service.cpp:751`: `set_settings` ignores the result of the save
   and clears the dirty flag; a failed save is acknowledged and never retried,
   unlike after any other command (`ImportLosesSave`).
2. `src/aquarium_app.cpp:118`: a failed geocoding clears `have_loc` but keeps
   `last_city`; a user who tries a wrong city and returns to the former one gets
   no more weather until the city is changed again (`WeatherStuck`).
   `CityArrives` holds for every run of the task that does not meet this.
3. `src/mqtt_client_hub.cpp:248`: `stop` and `start_from_nvs` have no lock and
   run on `httpd`, on `aq_tick` and at the start, which opens the portal before
   it starts MQTT. Two at once leave the old broker's client, or two clients,
   although `docs/ARCHITECTURE.uk.md:47` says save and reconnect
   (`MqttTwoSavers`).
Read, not run:

- after 90 s without SNTP the plan runs at an assumed 14:00
  (`src/device_service.cpp:370`), while `docs/README.uk.md:34` says the light
  stays off until the time is known;
- `set_manual_rgbw` alone stores levels without a clamp (`:465`), while
  `docs/ARCHITECTURE.uk.md:14` has them in [0, 1]; it is accepted in any mode and
  switches to manual (`:38` says "only in manual mode");
- `scene_end_special` returns to the stored mode, not always to automatic
  (`docs/ARCHITECTURE.uk.md:44`);
- a `set_mqtt_config` from the queue has stopped the client before its answer is
  sent (`src/mqtt_client_hub.cpp:178`), while `docs/ARCHITECTURE.uk.md:53`
  describes answers on `{prefix}/reply`;
- port 65535 is refused (`src/api_dispatch.cpp:106`), and `set_mqtt_config`
  clears the fields it is not given;
- `snapshot()` answers a default state when the mutex is busy;
- a step of `aq_storm` that misses the mutex is taken for one outside a storm, and
  sleeps 150 ms in the middle of it; the comment at `src/aquarium_app.cpp:89`
  speaks of 15 ms, the code sleeps 8;
- a flicker inside the fade of a flash raises the light again;
- the start erases all of NVS, settings and MQTT configuration, when it is of a
  newer version; the message it logs (`src/aquarium_app.cpp:34`) calls that NVS
  "corrupt/full", which it is not: an image that a rollback brings back may find
  one (`SettingsKept` says what is left);
- rollback is promised by `docs/BUILD_FLASH.uk.md:133`, and the code confirms
  images, but `sdkconfig.defaults` does not turn it on;
- `docs/README.uk.md:70` promises every page its state about twice a second,
  while one page has it once a second, as `docs/REVIEW.uk.md:26` knows.

## Not modelled

- Busy answers of the service: they change nothing in it. What becomes of them
  is in `HaBridge` and, as an answer that brings no state, in `WsPortal`.
- The age of a weather report, which the code does not bound, nor a document.
- A blob with a foreign magic, which nothing in the repository writes; a torn
  read of the sensor cache, whose flag never goes back; the race of `setenv` and
  `localtime_r`, which is inside the C library.
- The storm's envelope, which narrows ranges of random numbers.
- JSON wording, phase labels, colours, logging, LEDC registers, HTTP headers,
  MQTT topics and discovery as text, the pages of the panel. They are most of the
  lines no map entry names.
- Duplicates the broker may deliver, which are commands like any other.
- The form of the panel, which saves a whole copy of the settings, however old.
  `DeviceService` accepts any form at any time; no document says that a form must
  not undo what another client changed.
- Requests to the update handler that are refused at once, and `stop()` of the
  portal, which has no caller.

## Plan

Done, in this order: `DeviceService` with `SceneArbiter`, `ScheduleEngine`,
`WeatherTask`, `MqttHub`, `HaBridge`, `FirmwareUpdate`, `WsPortal`,
`LightningStorm`, the proofs of all of them, and `ImageTrial`.

Next, by importance:

1. `LightningStorm` as a refinement of `StormStep`, with the mutex shared.
2. `WebPanel`: a client with a stale form, composed with `DeviceService`, once it
   is said what a form may undo.
