--------------------------- MODULE MCFirmwareUpdate ---------------------------
(***************************************************************************)
(* An old image and three newer ones with more settings: one that works,   *)
(* one that dies before it is confirmed and one that dies after it.        *)
(***************************************************************************)
EXTENDS FirmwareUpdate

CONSTANTS v1, v2, v2early, v2late

MCImages == {v1, v2, v2early, v2late}
MCHealth == [i \in MCImages |-> IF i = v2early THEN "early"
                                ELSE IF i = v2late THEN "late" ELSE "good"]
MCLayout == [i \in MCImages |-> IF i = v1 THEN 1 ELSE 2]
=============================================================================
