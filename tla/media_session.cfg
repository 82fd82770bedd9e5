SPECIFICATION Spec
CONSTANTS
    SeqSize = 4
    WireMax = 2
    PtsMax = 2
    NowMax = 3
    TimeMax = 3
    Interval = 2
    MaxLag = 1
INVARIANTS
    Decodable
    OnlyForeignRefused
PROPERTIES
    NeverStale
