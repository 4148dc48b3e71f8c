----------------------------- MODULE SceneArbiter -----------------------------
(***************************************************************************)
(* What the controller promises about the scene that owns the light, with  *)
(* nothing said of time, the pump, other settings or what a save costs.    *)
(*                                                                         *)
(* A board that is on follows a mode, automatic or manual, possibly under  *)
(* one special scene (guests or moon), possibly under a storm.  A choice   *)
(* by the user ends whatever was on top.  The weather may start a storm by *)
(* itself in automatic mode only and never over the guest scene.  A        *)
(* restart resumes the mode and the special scene chosen last, or, where   *)
(* saves can fail, those of an earlier choice, together and never mixed;   *)
(* or the factory's, when the flash had to be erased.                      *)
(* DeviceService implements this specification.                            *)
(***************************************************************************)
CONSTANT Faults     \* may a save fail?

VARIABLES
    on, mode, special, storm,
    marked,         \* the special scene to be resumed
    saved           \* what a restart resumes

avars == <<on, mode, special, storm, marked, saved>>

AModes    == {"AUTO_24H", "MANUAL"}
ASpecials == {"none", "guests", "moon"}
Factory   == [mode |-> "AUTO_24H", special |-> "none"]

AInit == /\ on = FALSE /\ mode = "AUTO_24H" /\ special = "none"
         /\ storm = FALSE
         /\ marked = "none" /\ saved = Factory

\* A choice is saved before it is acknowledged; the save is all or nothing.
Saves(m, s) == saved' \in {[mode |-> m, special |-> s]}
                            \cup (IF Faults THEN {saved} ELSE {})

Choose(m, s) ==
    /\ on
    /\ mode' = m /\ special' = s /\ storm' = FALSE
    /\ marked' = s /\ Saves(m, s)
    /\ UNCHANGED on

ChooseMode   == \E m \in AModes : Choose(m, "none")
StartScene   == \E s \in {"guests", "moon"} : Choose(mode, s)

\* What could not be saved is saved later.
SaveAgain ==
    /\ on /\ Saves(mode, marked)
    /\ UNCHANGED <<on, mode, special, storm, marked>>

\* A storm on request ends a special scene for now; a restart brings it back.
StormOnRequest ==
    /\ on
    /\ special' = "none" /\ storm' = TRUE
    /\ UNCHANGED <<on, mode, marked, saved>>

\* It may come together with a save that was due.
StormByWeather ==
    /\ on /\ ~storm /\ mode = "AUTO_24H" /\ special # "guests"
    /\ storm' = TRUE
    /\ UNCHANGED saved \/ Saves(mode, marked)
    /\ UNCHANGED <<on, mode, special, marked>>

StormPasses ==
    /\ storm /\ storm' = FALSE
    /\ UNCHANGED <<on, mode, special, marked, saved>>

SwitchOff ==
    /\ on
    /\ on' = FALSE /\ mode' = "AUTO_24H" /\ special' = "none" /\ storm' = FALSE
    /\ marked' = "none"
    /\ UNCHANGED saved

EraseFlash ==
    /\ ~on /\ saved' = Factory
    /\ UNCHANGED <<on, mode, special, storm, marked>>

Restart ==
    /\ ~on
    /\ on' = TRUE /\ mode' = saved.mode
    /\ special' = saved.special /\ marked' = saved.special
    /\ UNCHANGED <<storm, saved>>

ANext == \/ ChooseMode \/ StartScene \/ SaveAgain
         \/ StormOnRequest \/ StormByWeather \/ StormPasses
         \/ SwitchOff \/ EraseFlash \/ Restart

ASpec == AInit /\ [][ANext]_avars
=============================================================================
