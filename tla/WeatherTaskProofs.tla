-------------------------- MODULE WeatherTaskProofs --------------------------
(***************************************************************************)
(* Proofs about the weather task, for any cities: what it hands over is    *)
(* never the weather of a city that was configured earlier.                *)
(***************************************************************************)
EXTENDS WeatherTask, TLAPS

\* A request knows the city it is for.  Coordinates, as long as they count as
\* found, are those of the city that was geocoded last; so a city that was not
\* geocoded last is geocoded before anything is fetched for it.
LocationInv ==
    /\ TypeOK
    /\ have_loc => loc = last_city
    /\ LocationMatchesCity

USE CitiesAssumption, PeriodsAssumption

LEMMA LocationInit == Init => LocationInv
<1> SUFFICES ASSUME Init PROVE LocationInv
  OBVIOUS
<1>1. have_loc \in BOOLEAN /\ ~have_loc
  BY DEF Init
<1>2. wait_left \in 0..Period /\ pc = "sleep"
  BY DEF Init
<1>3. {weather_city, weather_of, city, last_city, loc} \subseteq Cities \cup {NoCity}
  BY DEF Init
<1> QED BY <1>1, <1>2, <1>3 DEF LocationInv, TypeOK, LocationMatchesCity

\* The next step of a round, from the city it was given.
LEMMA ProceedStep ==
    ASSUME LocationInv, Proceed, UNCHANGED <<last_city, have_loc, loc>>
    PROVE  /\ pc' \in {"sleep", "geocode", "fetch", "publish"}
           /\ wait_left' \in 0..Period
           /\ LocationMatchesCity'
BY DEF LocationInv, TypeOK, LocationMatchesCity, Proceed, Sleep, GoOn

LEMMA LocationStep == LocationInv /\ [Next]_vars => LocationInv'
<1> SUFFICES ASSUME LocationInv, [Next]_vars PROVE LocationInv'
  OBVIOUS
<1> USE DEF LocationInv, TypeOK, LocationMatchesCity, Sleep, GoOn, locals
<1>1. ASSUME NEW busy \in BOOLEAN, WakeUp(busy) PROVE LocationInv'
  <2>1. /\ UNCHANGED <<weather_city, weather_of, last_city, have_loc, loc>>
        /\ city' \in Cities \cup {NoCity}
        /\ Proceed
    BY <1>1 DEF WakeUp
  <2> QED BY <2>1, ProceedStep
<1>2. ASSUME NEW busy \in BOOLEAN, Publish(busy) PROVE LocationInv'
  BY <1>2 DEF Publish
<1>3. CASE GeocodeOk
  BY <1>3 DEF GeocodeOk
<1>4. CASE GeocodeFails
  <2>1. have_loc' \in BOOLEAN /\ ~have_loc'
    BY <1>4 DEF GeocodeFails
  <2>2. /\ UNCHANGED <<weather_city, weather_of, city, last_city, loc>>
        /\ pc' = "sleep" /\ wait_left' \in 0..Period
    BY <1>4 DEF GeocodeFails
  <2> QED BY <2>1, <2>2
<1>5. CASE FetchOk
  BY <1>5 DEF FetchOk
<1>6. CASE FetchFails
  BY <1>6 DEF FetchFails
<1>7. CASE Elapse
  BY <1>7 DEF Elapse
<1>8. CASE SetCity
  BY <1>8 DEF SetCity
<1>9. CASE UNCHANGED vars
  BY <1>9 DEF vars
<1> QED BY <1>1, <1>2, <1>3, <1>4, <1>5, <1>6, <1>7, <1>8, <1>9 DEF Next, Task

LEMMA LocationInvHolds == Spec => []LocationInv
BY LocationInit, LocationStep, PTL DEF Spec

\* The variables of the task keep their types.
THEOREM WeatherTaskType == Spec => []TypeOK
<1>1. LocationInv => TypeOK
  BY DEF LocationInv
<1> QED BY <1>1, LocationInvHolds, PTL

\* Whatever the user changes while a request is in flight, and whatever fails,
\* the weather that is handed over was fetched for the city the round began with.
THEOREM WeatherIsOfItsCity == Spec => []LocationMatchesCity
<1>1. LocationInv => LocationMatchesCity
  BY DEF LocationInv
<1> QED BY <1>1, LocationInvHolds, PTL
=============================================================================
