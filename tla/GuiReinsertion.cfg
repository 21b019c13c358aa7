SPECIFICATION FairSpec
CONSTANTS
    a = a
    b = b
    p = p
    Cards <- OneCard
    Cids <- OneCard
    CutsOf <- NoCuts
    Splits <- OneCard
    Foreign = Foreign
    NoCard = NoCard
    Dead = Dead
    NoCid = NoCid
    Projects <- MCProjects
    NoProject = NoProject
    Files <- NoFiles
    NoFile = NoFile
    UserActs = {}
    MaxRetries = 3
    MaxFaults = 0
    MaxEvents = 3
    MaxDialogs = 2
PROPERTIES
    ReinsertionCompletes
