------------------------------ MODULE ImageTrial ------------------------------
(***************************************************************************)
(* What an update promises about images, with nothing said of slots,       *)
(* otadata, uploads, settings or Wi-Fi.                                    *)
(*                                                                         *)
(* There is always a current image, and a start runs it unless another is  *)
(* on trial.  A new image gets one start to prove itself: then it becomes  *)
(* the current one, or the next start gives it up for good.  Without       *)
(* trials the new image is the current one at once.  Nothing of a new      *)
(* image shows before it is installed, whole.  FirmwareUpdate implements   *)
(* this specification.                                                     *)
(***************************************************************************)
CONSTANTS
    Images, Factory,
    Early,          \* images that die before they prove themselves
    Nothing

VARIABLES
    trials,         \* do new images have to prove themselves?  chosen for good
    current,        \* the image that is trusted
    candidate,      \* the image installed that has yet to prove itself
    tried,          \* it has had its start
    run             \* the image that runs

avars == <<trials, current, candidate, tried, run>>

AInit == /\ trials \in BOOLEAN
         /\ current = Factory /\ candidate = Nothing /\ tried = FALSE
         /\ run = Nothing

StartCurrent ==
    /\ run = Nothing /\ candidate = Nothing
    /\ run' = current
    /\ UNCHANGED <<trials, current, candidate, tried>>

StartTrial ==
    /\ run = Nothing /\ candidate # Nothing /\ ~tried
    /\ run' = candidate /\ tried' = TRUE
    /\ UNCHANGED <<trials, current, candidate>>

GiveUp ==
    /\ run = Nothing /\ tried
    /\ run' = current /\ candidate' = Nothing /\ tried' = FALSE
    /\ UNCHANGED <<trials, current>>

Prove ==
    /\ tried /\ run = candidate /\ run \notin Early
    /\ current' = candidate /\ candidate' = Nothing /\ tried' = FALSE
    /\ UNCHANGED <<trials, run>>

\* The trusted image installs a new one, not before the last is proved.
Install ==
    /\ run = current /\ candidate = Nothing
    /\ \E image \in Images :
         IF trials THEN candidate' = image /\ current' = current
                   ELSE candidate' = candidate /\ current' = image
    /\ UNCHANGED <<trials, tried, run>>

Stop ==
    /\ run # Nothing /\ run' = Nothing
    /\ UNCHANGED <<trials, current, candidate, tried>>

ANext == StartCurrent \/ StartTrial \/ GiveUp \/ Prove \/ Install \/ Stop

ASpec == AInit /\ [][ANext]_avars
=============================================================================
