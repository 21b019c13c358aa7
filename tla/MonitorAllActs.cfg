SPECIFICATION Spec
CONSTANTS
    a = a
    b = b
    Cards <- MCCards
    Splits <- MCSplits
    Foreign = Foreign
    NoCard = NoCard
    Dead = Dead
    NoCid = NoCid
    UserActs = {"refresh", "clear", "close", "replug"}
    MaxRetries = 3
    MaxFaults = 1
    MaxEvents = 2
INVARIANTS
    TypeOK
    CardStatusTellsClaim
    OneCardPerRecord
