\* chiaki_senkusha_run against a console that answers, late or never.
SPECIFICATION Spec
CONSTANTS
    MinMtu = 1
    MaxMtu = 5
    Retries = 2
    Pings = 1
    MaxArriving = 2
    Paths <- PathsDef
CHECK_DEADLOCK FALSE
INVARIANT MeasuresTrue
PROPERTY SenkushaEnds
