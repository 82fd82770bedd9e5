SPECIFICATION Spec
CONSTANTS
    Interval = 3
    MaxLag = 1
    ClockMax = 17
    TimeMax = 20
INVARIANTS
    RateBound
    NotStarved
PROPERTIES
    NoBurst
