CONSTANTS
    Images = {i1}
    Blank = blank
    Torn = torn
    MaxQueue = 2
SPECIFICATION Spec
INVARIANTS TypeOK OnlineIsTrue
PROPERTIES NewestIsPaintedOnce RecoversUnattended
