----------------------------- MODULE WeatherTask -----------------------------
(***************************************************************************)
(* The task aq_weather (aquarium_app.cpp): find the coordinates of the     *)
(* configured city, fetch its weather, hand it to DeviceService, sleep.    *)
(*                                                                         *)
(* The two HTTP requests take seconds, during which the user may change    *)
(* the city; each is a phase of its own.  A city stands for its name, its  *)
(* coordinates and its resolved name.  Both calls into DeviceService can   *)
(* time out on mutex_: then the task sees no city, or its result is lost.  *)
(***************************************************************************)
EXTENDS Naturals

CONSTANTS
    Cities,     \* what users type in
    Known,      \* those the geocoder has
    NoCity,     \* the empty string
    Retry,      \* 60 s
    Period      \* 20 min

ASSUME CitiesAssumption == Known \subseteq Cities /\ NoCity \notin Cities
ASSUME PeriodsAssumption ==
    Retry \in Nat \ {0} /\ Period \in Nat /\ Retry < Period

VARIABLES
    weather_city,               \* settings_.weather_city
    weather_of,                 \* the city state_.weather_* is about
    pc, wait_left,
    city, last_city, have_loc,  \* locals of the task
    loc                         \* lat, lon and resolved

locals == <<city, last_city, have_loc, loc>>
vars == <<weather_city, weather_of, pc, wait_left, locals>>

Init ==
    /\ weather_city \in Cities \cup {NoCity}
    /\ weather_of = NoCity
    /\ pc = "sleep" /\ wait_left = 0
    /\ city = NoCity /\ last_city = NoCity /\ have_loc = FALSE /\ loc = NoCity

Sleep(time) == pc' = "sleep" /\ wait_left' = time

GoOn(phase) == pc' = phase /\ UNCHANGED wait_left

\* Mutant: once it has coordinates the task does not ask for others.
Proceed_OneLocation ==
    IF city' = NoCity THEN Sleep(Retry)
    ELSE IF ~have_loc THEN GoOn("geocode")
    ELSE GoOn("fetch")

\* Where the loop goes with the city it was given: geocode only if the city is
\* not the one geocoded last, fetch only with coordinates.
Proceed ==
    IF city' = NoCity THEN Sleep(Retry)
    ELSE IF city' # last_city THEN GoOn("geocode")
    ELSE IF have_loc THEN GoOn("fetch")
    ELSE Sleep(Retry)

\* weather_get_city; without the mutex within 100 ms it answers "".
WakeUp(busy) ==
    /\ pc = "sleep" /\ wait_left = 0
    /\ city' = IF busy THEN NoCity ELSE weather_city
    /\ Proceed
    /\ UNCHANGED <<weather_city, weather_of, last_city, have_loc, loc>>

GeocodeOk ==
    /\ pc = "geocode" /\ city \in Known
    /\ have_loc' = TRUE /\ loc' = city /\ last_city' = city
    /\ GoOn("fetch")
    /\ UNCHANGED <<weather_city, weather_of, city>>

\* Mutant: coordinates once found count as found for any city.
GeocodeFails_KeepsLocation ==
    /\ pc = "geocode"
    /\ IF have_loc THEN GoOn("fetch") ELSE Sleep(Retry)
    /\ UNCHANGED <<weather_city, weather_of, city, last_city, loc, have_loc>>

\* No answer, or no such city.  last_city and loc stay.
GeocodeFails ==
    /\ pc = "geocode"
    /\ have_loc' = FALSE
    /\ Sleep(Retry)
    /\ UNCHANGED <<weather_city, weather_of, city, last_city, loc>>

FetchOk ==
    /\ pc = "fetch"
    /\ GoOn("publish")
    /\ UNCHANGED <<weather_city, weather_of, locals>>

FetchFails ==
    /\ pc = "fetch"
    /\ Sleep(Retry)
    /\ UNCHANGED <<weather_city, weather_of, locals>>

\* weather_set_result; without the mutex within 200 ms the result is dropped,
\* and the task sleeps as after a success.
Publish(busy) ==
    /\ pc = "publish"
    /\ weather_of' = IF busy THEN weather_of ELSE loc
    /\ Sleep(Period)
    /\ UNCHANGED <<weather_city, locals>>

Elapse ==
    /\ pc = "sleep" /\ wait_left > 0
    /\ wait_left' = wait_left - 1
    /\ UNCHANGED <<weather_city, weather_of, pc, locals>>

\* A client saves the settings with another city.
SetCity ==
    /\ weather_city' \in (Cities \cup {NoCity}) \ {weather_city}
    /\ UNCHANGED <<weather_of, pc, wait_left, locals>>

Task == \/ \E busy \in BOOLEAN : WakeUp(busy) \/ Publish(busy)
        \/ GeocodeOk \/ GeocodeFails \/ FetchOk \/ FetchFails
        \/ Elapse

Next == Task \/ SetCity

Spec == Init /\ [][Next]_vars

\* The task loops for ever; requests end (they have timeouts); one that is
\* repeated for ever succeeds at last, and so does taking the mutex.
Fairness ==
    /\ WF_vars(Task)
    /\ SF_vars(WakeUp(FALSE)) /\ SF_vars(Publish(FALSE))
    /\ SF_vars(GeocodeOk) /\ SF_vars(FetchOk)

FairSpec == Spec /\ Fairness

-----------------------------------------------------------------------------
\* Every variable keeps its type.
TypeOK ==
    /\ {weather_city, weather_of, city, last_city, loc} \subseteq Cities \cup {NoCity}
    /\ pc \in {"sleep", "geocode", "fetch", "publish"}
    /\ wait_left \in 0..Period
    /\ have_loc \in BOOLEAN

\* The weather fetched and handed over is that of the city the task read at
\* the start of the round, never that of a city configured earlier.
LocationMatchesCity ==
    pc \in {"fetch", "publish"} => have_loc /\ loc = city

\* A failed search followed by a return to the city found before: the task
\* neither geocodes it again nor has coordinates to fetch with.
Stuck == last_city = weather_city /\ ~have_loc /\ weather_city # NoCity

\* If the configured city stays, its weather arrives and stays, whatever was
\* in flight, failed or was dropped before, unless the task is stuck.
CityArrives ==
    \A c \in Known : <>[](weather_city = c /\ ~Stuck) => <>[](weather_of = c)

\* aquarium_app.cpp:105: "success: poll every 20 min; error or no city: retry
\* after 60 s".  With a city configured the task sends requests again and again.
KeepsTrying ==
    \A c \in Cities :
      <>[](weather_city = c) => []<>(pc \in {"geocode", "fetch"})
=============================================================================
