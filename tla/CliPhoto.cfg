SPECIFICATION Spec
CONSTANTS
    a = a
    b = b
    d = d
    Cards <- MCCards
    Chained <- MCChained
    Foreign = Foreign
    NoCard = NoCard
    Dead = Dead
    NoCid = NoCid
    None = None
    Torn = Torn
    FieldCount = 3
    PartCount = 2
    MaxFaults = 1
    MaxRuns = 1
PROPERTIES
    PhotoIsSaved
CHECK_DEADLOCK FALSE
