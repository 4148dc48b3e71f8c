---------------------------- MODULE MCWeatherTask ----------------------------
(***************************************************************************)
(* Two cities the geocoder has and one it does not.                        *)
(***************************************************************************)
EXTENDS WeatherTask

CONSTANTS Kyiv, Lviv, Kyjv

MCCities == {Kyiv, Lviv, Kyjv}
MCKnown == {Kyiv, Lviv}
=============================================================================
