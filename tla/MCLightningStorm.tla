--------------------------- MODULE MCLightningStorm ---------------------------
(***************************************************************************)
(* Time in units of 30 ms and light in twentieths.  Of each range in the   *)
(* code the ends are taken; storms are shorter than 30 s.                  *)
(***************************************************************************)
EXTENDS LightningStorm

By(arrow, sheet, glint) ==
    [k \in Kinds |-> CASE k = "arrow" -> arrow [] k = "sheet" -> sheet
                       [] k = "glint" -> glint]

MCLengths   == By({3, 7}, {12, 22}, {7, 15})
MCCadences  == By({1}, {1, 2}, {1, 2})
MCStrengths == By({15, 20}, {9, 16}, {6, 10})
MCFloor     == By(45, 62, 50)
MCFadeLen   == By(2, 5, 4)
=============================================================================
