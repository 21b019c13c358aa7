SPECIFICATION Spec
CONSTANTS
    a = a
    b = b
    Cards <- MCCards
    Splits <- MCSplits
    Foreign = Foreign
    NoCard = NoCard
    Dead = Dead
    NoCid = NoCid
    UserActs = {"refresh", "replug"}
    MaxRetries = 3
    MaxFaults = 0
    MaxEvents = 2
INVARIANTS
    ReaderInUseIsShown
