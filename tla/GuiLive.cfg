SPECIFICATION FairSpec
CONSTANTS
    a = a
    b = b
    p = p
    Cards <- OneCard
    Cids <- OneCard
    CutsOf <- NoCuts
    Splits <- OneCard
    Foreign = Foreign
    NoCard = NoCard
    Dead = Dead
    NoCid = NoCid
    Projects <- MCProjects
    NoProject = NoProject
    Files <- OneFile
    NoFile = NoFile
    UserActs = {"clear", "refresh", "import"}
    MaxRetries = 3
    MaxFaults = 0
    MaxEvents = 2
    MaxDialogs = 2
INVARIANTS
    TypeOK
PROPERTIES
    WarnsOnlyWhoReturns
    CardInReaderIsListed
    ImplementsTable
    ImplementsCardMonitor
