SPECIFICATION FairSpec

CONSTANTS
    Kyiv = Kyiv
    Lviv = Lviv
    Kyjv = Kyjv
    NoCity = NoCity
    Cities <- MCCities
    Known <- MCKnown
    Retry = 1
    Period = 3

INVARIANTS
    LocationMatchesCity

PROPERTIES
    CityArrives
