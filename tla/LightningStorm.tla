---------------------------- MODULE LightningStorm ----------------------------
(***************************************************************************)
(* The light inside a storm (device_service.cpp, aq_storm): strikes of     *)
(* three kinds, each with its length, its flicker and its fade.  When      *)
(* storms start and end, and who else writes the light, is DeviceService.  *)
(*                                                                         *)
(* Points in time are kept as the time that is left until then.  A random  *)
(* number is any of its range; the storm's envelope narrows some ranges    *)
(* and is left out.  A step that does not get the mutex within 50 ms       *)
(* writes nothing and is taken for one outside a storm, so that the task   *)
(* sleeps 150 ms.                                                          *)
(***************************************************************************)
EXTENDS Naturals

CONSTANTS
    Kinds,
    Lengths,        \* kind -> lengths a flash can have
    Cadences,       \* kind -> times from one flicker to the next
    Strengths,      \* kind -> intensities
    Floor,          \* kind -> the least part of it that a flicker shows, in %
    FadeLen,        \* kind -> how long before its end a flash fades
    Gaps,           \* from the end of a flash to the next strike
    FirstStrikes,   \* from the start of a storm to its first strike
    StormTime,
    Ambient, Full,  \* light between the flashes; the brightest there is
    Lags,           \* from one step to the next
    MissLags,       \* the same when the mutex was busy
    Misses          \* can the mutex be busy?  chosen for good

ASSUME StormAssumption ==
    /\ Lengths \in [Kinds -> SUBSET (Nat \ {0})]
    /\ Cadences \in [Kinds -> SUBSET Nat] /\ FadeLen \in [Kinds -> Nat \ {0}]
    /\ Full \in Nat /\ Ambient \in 0..Full
    /\ Strengths \in [Kinds -> SUBSET (Ambient..Full)] /\ Floor \in [Kinds -> 0..100]
    /\ \A k \in Kinds : \A length \in Lengths[k] : FadeLen[k] <= length
    /\ (Gaps \cup FirstStrikes \cup Lags \cup MissLags) \subseteq Nat \ {0}
    /\ Gaps # {} /\ \A first \in FirstStrikes : \E gap \in Gaps : gap <= first
    /\ \E latest \in Lags : \A d \in Lags : d <= latest
    /\ StormTime \in Nat \ {0} /\ Misses \subseteq BOOLEAN

Least(S)    == CHOOSE x \in S : \A y \in S : x <= y
Greatest(S) == CHOOSE x \in S : \A y \in S : x >= y

VARIABLES
    storm_left,     \* until lightning_until_ms_
    flash_left,     \* until lightning_flash_end_ms_
    strike_in,      \* until lightning_next_strike_ms_
    spike_in,       \* until lightning_next_spike_ms_
    type, intensity, level,
    shown,          \* what the storm has written to the light
    busy,           \* the mutex is busy now and then
    dark            \* history: how long it had been dark when the step came,
                    \* up to the least gap

schedule == <<storm_left, flash_left, strike_in, spike_in>>
flash    == <<type, intensity, level>>
vars     == <<schedule, flash, shown, busy, dark>>

MinGap == Least(Gaps)

-----------------------------------------------------------------------------
(* Time *)

Later(left, d) == IF left > d THEN left - d ELSE 0

\* The light stays as it is until the step writes it.
DarkFor(d) ==
    IF shown > Ambient THEN 0
    ELSE IF dark + d < MinGap THEN dark + d ELSE MinGap

TimePasses(d) ==
    /\ storm_left' = Later(storm_left, d)
    /\ dark' = DarkFor(d)
    /\ UNCHANGED busy

-----------------------------------------------------------------------------
(* drive_storm_fast_locked *)

\* A flicker: some part of the intensity, never less than the ambient light.
Spikes(k, i) ==
    LET lowest == (i * Floor[k]) \div 100
    IN  {IF l > Ambient THEN l ELSE Ambient : l \in lowest..i}

\* Mutant: the whole flash fades.
Faded_AllAlong(l, k, left) ==
    Ambient + ((l - Ambient) * left) \div (left + FadeLen[k])

\* Mutant: the fade goes down to darkness.
Faded_ToZero(l, k, left) ==
    IF left < FadeLen[k] THEN (l * left) \div FadeLen[k] ELSE l

\* Towards its end a flash fades to the ambient light.
Faded(l, k, left) ==
    IF left < FadeLen[k]
    THEN Ambient + ((l - Ambient) * left) \div FadeLen[k]
    ELSE l

Writes == shown' = level'

\* A strike: its kind, strength, length and the gap after it are drawn, and it
\* flickers at once.
Strike(d) ==
    /\ storm_left > d /\ flash_left <= d /\ strike_in <= d
    /\ \E k \in Kinds : \E i \in Strengths[k], length \in Lengths[k], gap \in Gaps :
         /\ type' = k /\ intensity' = i
         /\ flash_left' = length /\ strike_in' = length + gap
         /\ spike_in' \in Cadences[k]
         /\ \E l \in Spikes(k, i) : level' = Faded(l, k, length)
    /\ Writes /\ TimePasses(d)

\* Within a flash the level changes when a flicker is due, and fades.
Flash(d) ==
    /\ storm_left > d /\ flash_left > d
    /\ flash_left' = flash_left - d /\ strike_in' = Later(strike_in, d)
    /\ IF spike_in <= d
       THEN /\ spike_in' \in Cadences[type]
            /\ \E l \in Spikes(type, intensity) : level' = Faded(l, type, flash_left')
       ELSE /\ spike_in' = spike_in - d
            /\ level' = Faded(level, type, flash_left')
    /\ Writes /\ TimePasses(d)
    /\ UNCHANGED <<type, intensity>>

Between(d) ==
    /\ storm_left > d /\ flash_left <= d /\ strike_in > d
    /\ flash_left' = 0 /\ strike_in' = strike_in - d /\ spike_in' = Later(spike_in, d)
    /\ level' = Ambient
    /\ Writes /\ TimePasses(d)
    /\ UNCHANGED <<type, intensity>>

\* The storm is over, or the mutex is busy: nothing is written.
Sleeps(d) ==
    /\ flash_left' = Later(flash_left, d) /\ strike_in' = Later(strike_in, d)
    /\ spike_in' = Later(spike_in, d)
    /\ TimePasses(d)
    /\ UNCHANGED flash

Over(d) == 0 < storm_left /\ storm_left <= d /\ shown' = Ambient /\ Sleeps(d)

Missed(d) == busy /\ storm_left > d /\ UNCHANGED shown /\ Sleeps(d)

-----------------------------------------------------------------------------
(* Storms *)

\* Mutant: the strike that was due in the last storm is still due.
ArmStorm_KeepsStrike ==
    /\ storm_left' = StormTime
    /\ flash_left' = 0 /\ spike_in' = 0
    /\ intensity' = 0 /\ level' = Ambient
    /\ UNCHANGED <<strike_in, type, shown, busy, dark>>

\* arm_storm_locked: scene_lightning may come in the middle of a storm.
ArmStorm ==
    /\ storm_left' = StormTime
    /\ flash_left' = 0 /\ spike_in' = 0 /\ strike_in' \in FirstStrikes
    /\ intensity' = 0 /\ level' = Ambient
    /\ UNCHANGED <<type, shown, busy, dark>>

\* Another scene or a command ends the storm and has the light.
CancelStorm ==
    /\ storm_left > 0 /\ storm_left' = 0
    /\ shown' = Ambient /\ dark' = 0
    /\ UNCHANGED <<flash_left, strike_in, spike_in, flash, busy>>

\* Between storms aq_storm sleeps; no more than time goes by.
Calm(d) ==
    /\ storm_left = 0 /\ UNCHANGED <<storm_left, shown, busy>>
    /\ dark' = DarkFor(d)
    /\ flash_left' = Later(flash_left, d) /\ strike_in' = Later(strike_in, d)
    /\ spike_in' = Later(spike_in, d)
    /\ UNCHANGED flash

-----------------------------------------------------------------------------
Init ==
    /\ storm_left = 0 /\ flash_left = 0 /\ strike_in = 0 /\ spike_in = 0
    /\ type \in Kinds /\ intensity = 0 /\ level = 0
    /\ shown = Ambient /\ busy \in Misses /\ dark = 0

Step(d) == Strike(d) \/ Flash(d) \/ Between(d) \/ Over(d)

Next == \/ \E d \in Lags : Step(d)
        \/ \E d \in MissLags : Missed(d) \/ Calm(d)
        \/ ArmStorm \/ CancelStorm

Spec == Init /\ [][Next]_vars

-----------------------------------------------------------------------------
\* Every variable keeps its type; in a storm the light is never below the
\* ambient light.
TypeOK ==
    /\ storm_left \in 0..StormTime
    /\ {flash_left, strike_in, spike_in} \subseteq Nat
    /\ type \in Kinds /\ intensity \in 0..Full
    /\ level \in 0..Full /\ (storm_left > 0 => level >= Ambient)
    /\ shown \in Ambient..Full
    /\ busy \in BOOLEAN /\ dark \in 0..MinGap

\* "A flash lasts its time and trembles within, without going dark": from the
\* strike to the fade the light is no darker than the floor of its kind, also
\* when steps are late or missed and whatever the last flash or storm left.
SteadyFlash ==
    storm_left > 0 /\ flash_left >= FadeLen[type]
      => level >= Least(Spikes(type, intensity))

\* No strike follows on a flash without a dark pause, the least gap but for the
\* lateness of a step; neither when a storm is started anew in the middle of a
\* flash.  (Only while the mutex is free: a missed step lets a flash stand.)
PauseBeforeStrike ==
    [][~busy /\ flash_left' > flash_left => dark' + Greatest(Lags) >= MinGap]_vars
=============================================================================
