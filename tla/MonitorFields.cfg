SPECIFICATION FieldsSpec
CONSTANTS
    a = a
    b = b
    Cards <- MCCards
    Splits <- MCSplits
    Men <- MCMen
    ThaiText <- MCThaiText
    EnglishText <- MCEnglishText
    AddressText <- MCAddressText
    Foreign = Foreign
    NoCard = NoCard
    Dead = Dead
    NoCid = NoCid
    UserActs = {"replug"}
    MaxRetries = 3
    MaxFaults = 1
    MaxEvents = 3
INVARIANTS
    FieldsTypeOK
    FieldsOfOneCard
    OnlyGenderHidesALoss
    ReaderInUseIsShown
PROPERTIES
    ImplementsMonitor
    ReaderIsFound
    InsertedCardIsRead
    RemovalIsNoticed
